---- MODULE Spec2Model ----
(***************************************************************************)
(* A model of hydrus/client/ClientFiles.py: the sharded client file store  *)
(* (ClientFilesManager: location map, rebalancing, healing, the file       *)
(* read/write lock) and the file maintenance scheduler                     *)
(* (FilesMaintenanceManager: _RunJob, ForceMaintenance, RunJobImmediately, *)
(* MainLoopBackgroundWork).                                                *)
(***************************************************************************)
EXTENDS Integers, Sequences, FiniteSets, TLC

\* ------------------------------------------------------------------------
\* Bounds and input domains
\* ------------------------------------------------------------------------

\* Number of hex prefixes per kind. The program has 256 ('00'..'ff'); every
\* 1/256 of the source is 1/NumHex here.
NumHex == 2

\* The storage locations (absolute directory paths in the program), in the
\* order the configuration lists them.
LocationOrder == <<"A", "B", "C">>

Locations == {LocationOrder[i] : i \in DOMAIN LocationOrder}

\* Ideal weights the configuration may carry for a location.
Weights == {0, 1, 2}

\* The file records (hashes) maintenance jobs are about.
NumRecords == 2

Records == 1..NumRecords

\* The job kinds in play (REGENERATE_FILE_DATA_JOB_*).
JobTypes == {"REFIT_THUMBNAIL"}

\* The maintenance threads: the background loop, a caller of
\* ForceMaintenance and a caller of RunJobImmediately.
MThreads == {"bg", "fm", "rji"}

\* What a job body does: it returns, or it raises an unexpected exception,
\* an IOError or a ShutdownException.
Outcomes == {"ok", "exception", "io", "shutdown"}

\* len( cleared_jobs ) > 256 flushes the buffer
ClearedJobsLimit == 256

None == "None"

NoTuple == <<>>

FilePrefix(i) == <<"f", i>>

ThumbnailPrefix(i) == <<"t", i>>

HexPrefixes == 1..NumHex

FilePrefixes == {FilePrefix(i) : i \in HexPrefixes}

ThumbnailPrefixes == {ThumbnailPrefix(i) : i \in HexPrefixes}

Prefixes == FilePrefixes \cup ThumbnailPrefixes

Range(s) == {s[i] : i \in DOMAIN s}

Min(a, b) == IF a <= b THEN a ELSE b

Abs(x) == IF x < 0 THEN -x ELSE x

\* Saturation value of the move counters of a rebalance pass.
MoveCap == 2 * NumHex + 1

\* Directory changes made outside the program (by the operator) in a run.
MaxEnvOps == 1

\* Threads that call the file store (Rebalance runs on a thread of its own).
NumThreads == 2

Threads == 1..NumThreads

\* The hashes of the files the calls are about.
NumHashes == 1

Hashes == 1..NumHashes

\* HC.ALLOWED_MIMES, in the order _LookForFilePath tries them; the mimes have
\* different extensions.
MimeOrder == <<"jpg", "png">>

Mimes == {MimeOrder[i] : i \in DOMAIN MimeOrder}

\* Sizes are counted in units of 100 * 1048576 bytes, rounded down.
HundredMegabytes == 1

\* The most free space a drive reports, and the largest file, in these units.
MaxFreeSpace == 2

FreeSpaces == 0..MaxFreeSpace

FileSizes == 0..MaxFreeSpace

\* The URLs a media result may carry.
NumURLs == 2

URLs == 1..NumURLs

\* What GetURLClass( url ) gives: a URL class of some type, None, or a
\* URLClassException.
URLClasses == {"URL_TYPE_POST", "URL_TYPE_FILE", "URL_TYPE_GALLERY", "None", "URLClassException"}

\* The REGENERATE_FILE_DATA_JOB_FILE_INTEGRITY_ job kinds.
IntegrityJobTypes ==
    {"PRESENCE_REMOVE_RECORD", "PRESENCE_DELETE_RECORD", "PRESENCE_TRY_URL",
     "PRESENCE_TRY_URL_ELSE_REMOVE_RECORD", "PRESENCE_LOG_ONLY", "DATA_REMOVE_RECORD",
     "DATA_TRY_URL", "DATA_TRY_URL_ELSE_REMOVE_RECORD", "DATA_SILENT_DELETE"}

\* _CheckFileIntegrity calls in a run.
MaxChecks == 2

\* Jobs pending when a further ScheduleJob call is made.
MaxPending == 3

\* _RegenFileThumbnailRefit calls in a run.
MaxRefits == 2

\* Calls of _GenerateExpectedFilePath and _GenerateExpectedThumbnailPath in a run.
MaxPathCalls == 2

\* The hashes paths are made for: more than there are hex prefixes, so that
\* two of them share one.
PathHashes == 1..(NumHex + 1)

\* HC.ALLOWED_MIMES with a third mime that shares its extension with the
\* second, for the calls that go through every allowed mime on disk.
ALLOWED_MIMES == <<"jpg", "png", "apng">>

\* The hashes of the files on disk.
NumDiskHashes == 2

\* the pairs that await physical deletion at the start
MaxPendingPairs == 2

DiskHashes == 1..NumDiskHashes

\* HC.mime_ext_lookup
mime_ext_lookup == [mime \in Range(ALLOWED_MIMES) |-> IF mime = "jpg" THEN ".jpg" ELSE ".png"]

\* Every REGENERATE_FILE_DATA_JOB_ job kind.
AllJobTypes ==
    IntegrityJobTypes \cup
    {"FILE_METADATA", "FORCE_THUMBNAIL", "REFIT_THUMBNAIL", "OTHER_HASHES",
     "DELETE_NEIGHBOUR_DUPES", "FIX_PERMISSIONS", "CHECK_SIMILAR_FILES_MEMBERSHIP",
     "SIMILAR_FILES_METADATA", "FILE_MODIFIED_TIMESTAMP", "FILE_HAS_ICC_PROFILE", "PIXEL_HASH",
     "FILE_HAS_HUMAN_READABLE_EMBEDDED_METADATA", "FILE_HAS_EXIF"}

\* The table with, for each kind, the kinds one level below it only.
OverruledJobsOneLevel ==
    [job_type \in AllJobTypes |->
        CASE job_type = "FORCE_THUMBNAIL" -> <<"REFIT_THUMBNAIL">>
          [] job_type \in {"PRESENCE_DELETE_RECORD", "PRESENCE_REMOVE_RECORD", "PRESENCE_TRY_URL"} ->
                <<"PRESENCE_LOG_ONLY">>
          [] job_type = "PRESENCE_TRY_URL_ELSE_REMOVE_RECORD" ->
                <<"PRESENCE_TRY_URL", "PRESENCE_REMOVE_RECORD">>
          [] job_type = "DATA_REMOVE_RECORD" -> <<"PRESENCE_REMOVE_RECORD">>
          [] job_type = "DATA_TRY_URL" -> <<"PRESENCE_TRY_URL">>
          [] job_type = "DATA_TRY_URL_ELSE_REMOVE_RECORD" -> <<"DATA_TRY_URL", "DATA_REMOVE_RECORD">>
          [] job_type = "SIMILAR_FILES_METADATA" -> <<"CHECK_SIMILAR_FILES_MEMBERSHIP">>
          [] OTHER -> <<>>]

regen_file_enum_to_overruled_jobs ==
    [job_type \in AllJobTypes |->
        CASE job_type = "FILE_METADATA" -> <<>>
          [] job_type = "FORCE_THUMBNAIL" -> <<"REFIT_THUMBNAIL">>
          [] job_type = "REFIT_THUMBNAIL" -> <<>>
          [] job_type = "OTHER_HASHES" -> <<>>
          [] job_type = "DELETE_NEIGHBOUR_DUPES" -> <<>>
          [] job_type = "PRESENCE_LOG_ONLY" -> <<>>
          [] job_type = "PRESENCE_DELETE_RECORD" -> <<"PRESENCE_LOG_ONLY">>
          [] job_type = "PRESENCE_REMOVE_RECORD" -> <<"PRESENCE_LOG_ONLY">>
          [] job_type = "PRESENCE_TRY_URL" -> <<"PRESENCE_LOG_ONLY">>
          [] job_type = "PRESENCE_TRY_URL_ELSE_REMOVE_RECORD" ->
                <<"PRESENCE_LOG_ONLY", "PRESENCE_TRY_URL", "PRESENCE_REMOVE_RECORD">>
          [] job_type = "DATA_REMOVE_RECORD" -> <<"PRESENCE_LOG_ONLY", "PRESENCE_REMOVE_RECORD">>
          [] job_type = "DATA_TRY_URL" -> <<"PRESENCE_LOG_ONLY", "PRESENCE_TRY_URL">>
          [] job_type = "DATA_TRY_URL_ELSE_REMOVE_RECORD" ->
                <<"PRESENCE_LOG_ONLY", "PRESENCE_TRY_URL", "PRESENCE_REMOVE_RECORD",
                  "DATA_TRY_URL", "DATA_REMOVE_RECORD">>
          [] job_type = "DATA_SILENT_DELETE" -> <<>>
          [] job_type = "FIX_PERMISSIONS" -> <<>>
          [] job_type = "CHECK_SIMILAR_FILES_MEMBERSHIP" -> <<>>
          [] job_type = "SIMILAR_FILES_METADATA" -> <<"CHECK_SIMILAR_FILES_MEMBERSHIP">>
          [] job_type = "FILE_MODIFIED_TIMESTAMP" -> <<>>
          [] job_type = "FILE_HAS_EXIF" -> <<>>
          [] job_type = "FILE_HAS_HUMAN_READABLE_EMBEDDED_METADATA" -> <<>>
          [] job_type = "FILE_HAS_ICC_PROFILE" -> <<>>
          [] job_type = "PIXEL_HASH" -> <<>>]

\* the kinds a job of kind job_type overrules
OverruledJobs(job_type) ==
    {regen_file_enum_to_overruled_jobs[job_type][i] :
        i \in DOMAIN regen_file_enum_to_overruled_jobs[job_type]}

VARIABLES
    \* ---- ClientFilesManager and its external stores
    db_client_files_locations,  \* the table behind Read('client_files_locations'): rows <<prefix, location>>
    prefixes_to_locations,      \* self._prefixes_to_locations
    ideal_locations,            \* Read('ideal_client_files_locations')[0], an ordered dict: seq of <<location, weight>>
    thumbnail_override,         \* Read('ideal_client_files_locations')[1]
    dirs,                       \* prefix directories on disk: <<location, prefix>>
    bad_error_occurred,         \* self._bad_error_occurred
    missing_locations,          \* self._missing_locations
    repair_rows,                \* correct_rows of the last Write('repair_client_files')
    reb_pc,                     \* position of the thread inside Rebalance
    rebalance_tuple,            \* the local rebalance_tuple of Rebalance
    recover_tuple,              \* the local recover_tuple of Rebalance
    reb_cancelled,              \* job_key.IsCancelled() of the Rebalance job key
    num_file_moves,             \* file-shard moves of the current pass
    num_thumb_moves,            \* thumbnail-shard moves of the current pass
    env_ops,                    \* directory changes made outside the program so far
    disk_free_space,            \* HydrusPaths.GetFreeSpace( location ), per location
    locations_to_free_space,    \* self._locations_to_free_space: location -> the free space last fetched
    paused,                     \* the three pause options _HandleCriticalDriveError sets
    rw_readers,                 \* threads inside 'with self._rwlock.read'
    rw_writer,                  \* threads inside 'with self._rwlock.write' (Rebalance apart)
    fs_pc,                      \* position of each thread that calls the file store
    fs_arg,                     \* <<hash, mime, old_mime>> of the call a thread is in
    files,                      \* files on disk: <<hash, mime>> (the extension is the mime's)
    thumbnails,                 \* per hash: "missing", "wrong" (size) or "right"
    was_regenerated,            \* what the _RegenFileThumbnailRefit calls have returned: "True", "False" or None
    \* ---- FilesMaintenanceManager and its external stores
    job_queue,                  \* the pending jobs of the job queue store: <<hash, job_type>>
    media_hashes,               \* the hashes Read('media_results') has a record for
    serious_error_encountered,  \* self._serious_error_encountered
    shutdown,                   \* self._shutdown
    reset_background_event,     \* self._reset_background_event.is_set()
    wake_background_event,      \* self._wake_background_event.is_set()
    maintenance_lock,           \* the holders of self._maintenance_lock
    lock,                       \* the holders of self._lock
    able,                       \* what _AbleToDoBackgroundMaintenance returns now
    m_pc,                       \* position of each maintenance thread
    m_job,                      \* media_results of the job (or call) a thread works on
    m_type,                     \* its job_type
    m_idx,                      \* records of m_job the background loop is done with
    m_run,                      \* media_results handed to the running _RunJob
    m_cleared,                  \* cleared_jobs of the running _RunJob (hashes)
    m_reported,                 \* hashes the _RunJob call has written as cleared
    m_log,                      \* outcomes of the job bodies the _RunJob call has run, in order
    m_cancelled,                \* job_key.IsCancelled() of the call's job key
    m_after_error,              \* the call began after the serious error was set
    m_batch_ran,                \* the thread's batch in progress has run a record
    m_intruded,                 \* another thread ran a record since then
    \* ---- _CheckFileIntegrity and its external stores
    media_result,               \* the media result of the file under check: its hash and its URLs, classified
    record_file,                \* what GetFilePath and GetHashFromPath find: "good", "invalid" or "missing"
    missing_hashes_log,         \* the lines of '<boot time> missing hashes.txt'
    error_dir,                  \* what else missing_and_invalid_files holds: <<kind, hash>>
    redownloader,               \* the URLs given to QP.CallAfter( qt_add_url, url ), in order
    content_updates,            \* the content updates written: <<action, hash>>, in order
    pubbed_messages,            \* the _pubbed_message_about_... flags that are set
    shown_messages,             \* the messages of file maintenance given to ShowText, in order
    integrity_call,             \* job_type and locals of the last _CheckFileIntegrity call
    num_checks,                 \* _CheckFileIntegrity calls so far
    \* ---- the overrule table
    overrule_lookup,            \* two job kinds and what the table says of them
    schedule_call,              \* the last ScheduleJob call of any kind
    \* ---- the expected paths
    path_calls,                 \* the calls of the two _GenerateExpected...Path so far, with the map they saw
    \* ---- the files on disk by path, and the calls that work on them
    d_files,                    \* the paths of the files and thumbnails on disk
    d_call,                     \* the last call that ended: its arguments, what it found, how it ended
    d_pending,                  \* the pairs ( file_hash, thumbnail_hash ) that await physical deletion
    d_acks,                     \* the clear_deferred_physical_delete writes, in order
    d_loop,                     \* DoDeferredPhysicalDeletes is in its loop
    started_shutdown            \* HG.started_shutdown

lockVars == <<rw_readers, rw_writer>>

fsVars == <<fs_pc, fs_arg, files, thumbnails, was_regenerated>>

configVars == <<ideal_locations, thumbnail_override>>

mapVars == <<db_client_files_locations, prefixes_to_locations, bad_error_occurred,
             missing_locations, repair_rows>>

rebVars == <<reb_pc, rebalance_tuple, recover_tuple, reb_cancelled, num_file_moves,
             num_thumb_moves>>

driveVars == <<disk_free_space, locations_to_free_space, paused>>

storeVars == <<configVars, driveVars, mapVars, rebVars, dirs, env_ops>>

flagVars == <<serious_error_encountered, shutdown, reset_background_event,
              wake_background_event>>

mutexVars == <<maintenance_lock, lock>>

callVars == <<m_pc, m_job, m_type, m_idx, m_cancelled, m_after_error>>

runVars == <<m_run, m_cleared, m_reported, m_log>>

batchVars == <<m_batch_ran, m_intruded>>

maintVars == <<job_queue, media_hashes, able, flagVars, mutexVars, callVars, runVars, batchVars>>

\* the stores the job bodies work on
integrityVars == <<media_result, record_file, missing_hashes_log, error_dir, redownloader,
                   content_updates, pubbed_messages, shown_messages, integrity_call,
                   num_checks>>

diskVars == <<d_files, d_call, d_pending, d_acks, d_loop, started_shutdown>>

jobVars == <<integrityVars, overrule_lookup, schedule_call, path_calls, diskVars>>

vars == <<storeVars, lockVars, fsVars, maintVars, jobVars>>

\* ------------------------------------------------------------------------
\* The location table and the in-memory map
\* ------------------------------------------------------------------------

\* Read('client_files_locations'): the dict built from the table's rows.
ReadClientFilesLocations(rows) ==
    [p \in {r[1] : r \in rows} |-> CHOOSE l \in Locations : <<p, l>> \in rows]

\* a relocation that adds the new row and keeps the old one
RelocateRowsInsert(rows, prefix, dest) == rows \cup {<<prefix, dest>>}

\* Write('relocate_client_files', prefix, source, dest): moves the prefix
\* directory and updates the prefix's row.
RelocateRows(rows, prefix, dest) ==
    IF \E r \in rows : r[1] = prefix
    THEN {r \in rows : r[1] # prefix} \cup {<<prefix, dest>>}
    ELSE rows

RelocateDirs(d, prefix, source, dest) ==
    (d \ {<<source, prefix>>}) \cup {<<dest, prefix>>}

RECURSIVE RepairRows(_, _)
\* Write('repair_client_files', correct_rows): one update per row.
RepairRows(rows, correct_rows) ==
    IF correct_rows = {} THEN rows
    ELSE LET cr == CHOOSE x \in correct_rows : TRUE
         IN RepairRows(RelocateRows(rows, cr[1], cr[2]), correct_rows \ {cr})

\* ------------------------------------------------------------------------
\* _GetRebalanceTuple
\* ------------------------------------------------------------------------

RECURSIVE SumWeights(_)
SumWeights(s) == IF s = <<>> THEN 0 ELSE Head(s)[2] + SumWeights(Tail(s))

ConfigLocations(ideal) == {ideal[i][1] : i \in DOMAIN ideal}

\* number of file prefixes a location holds (its current weight times NumHex)
CurrentCount(map, location) ==
    Cardinality({i \in HexPrefixes : FilePrefix(i) \in DOMAIN map /\ map[FilePrefix(i)] = location})

RECURSIVE CurrentOnly(_, _, _)
\* locations of the current map absent from the configuration, in the order
\* the file prefixes meet them; they get ideal weight 0
CurrentOnly(map, known, i) ==
    IF i > NumHex THEN <<>>
    ELSE LET l == map[FilePrefix(i)]
         IN IF l \in known THEN CurrentOnly(map, known, i + 1)
            ELSE <<<<l, 0>>>> \o CurrentOnly(map, known \cup {l}, i + 1)

IdealWithCurrent(map, ideal) == ideal \o CurrentOnly(map, ConfigLocations(ideal), 1)

\* current_weight < ideal_weight, or the location holds no file prefix
IsUnderweight(map, ideal, entry) ==
    LET c == CurrentCount(map, entry[1])
    IN IF c > 0 THEN c * SumWeights(ideal) < entry[2] * NumHex ELSE TRUE

\* IsOverweight with the test current_weight > ideal_weight: a location less
\* than one whole shard over its target counts as overweight
IsOverweightNoShardMargin(map, ideal, entry) ==
    LET c == CurrentCount(map, entry[1])
        t == SumWeights(ideal)
    IN /\ c > 0
       /\ c * t > entry[2] * NumHex

\* current_weight >= ideal_weight + 1/256
IsOverweight(map, ideal, entry) ==
    LET c == CurrentCount(map, entry[1])
        t == SumWeights(ideal)
    IN /\ c > 0
       /\ ~(c * t < entry[2] * NumHex)
       /\ c * t >= entry[2] * NumHex + t

OverweightLocations(map, ideal) ==
    SelectSeq(IdealWithCurrent(map, ideal), LAMBDA e : IsOverweight(map, ideal, e))

UnderweightLocations(map, ideal) ==
    SelectSeq(IdealWithCurrent(map, ideal), LAMBDA e : IsUnderweight(map, ideal, e))

\* the correct thumbnail location without the override
CorrectThumbnailLocationOfFiles(map, override, i) == map[FilePrefix(i)]

CorrectThumbnailLocation(map, override, i) ==
    IF override = None THEN map[FilePrefix(i)] ELSE override

WrongThumbnails(map, override) ==
    {i \in HexPrefixes : map[ThumbnailPrefix(i)] # CorrectThumbnailLocation(map, override, i)}

\* The tuples _GetRebalanceTuple may return: random.shuffle makes the file
\* prefix a choice; NoTuple stands for None.
GetRebalanceTuple(map, ideal, override) ==
    LET over == OverweightLocations(map, ideal)
        under == UnderweightLocations(map, ideal)
    IN IF Len(under) > 0 /\ Len(over) > 0
       THEN {<<FilePrefix(i), Head(over)[1], Head(under)[1]>> :
                i \in {j \in HexPrefixes : map[FilePrefix(j)] = Head(over)[1]}}
       ELSE IF WrongThumbnails(map, override) = {}
            THEN {NoTuple}
            ELSE LET i == CHOOSE j \in WrongThumbnails(map, override) :
                              \A k \in WrongThumbnails(map, override) : j <= k
                 IN {<<ThumbnailPrefix(i), map[ThumbnailPrefix(i)],
                       CorrectThumbnailLocation(map, override, i)>>}

\* ------------------------------------------------------------------------
\* _ReinitMissingLocations, _AttemptToHealMissingLocations, _Reinit
\* ------------------------------------------------------------------------

ReinitMissingLocations(map, d) ==
    {<<map[p], p>> : p \in {q \in DOMAIN map : <<map[q], q>> \notin d}}

\* known_locations made of the values of the map alone
KnownLocationsOfMapOnly(map, ideal, override) == {map[p] : p \in DOMAIN map}

KnownLocations(map, ideal, override) ==
    {map[p] : p \in DOMAIN map} \cup ConfigLocations(ideal)
        \cup (IF override = None THEN {} ELSE {override})

PotentialCorrectLocations(known, d, missing) ==
    {k \in known : k # missing[1] /\ <<k, missing[2]>> \in d}

\* correct_rows of _AttemptToHealMissingLocations
AttemptToHealMissingLocations(map, ideal, override, d, missing) ==
    {<<m[2], CHOOSE k \in PotentialCorrectLocations(KnownLocations(map, ideal, override), d, m) : TRUE>> :
        m \in {x \in missing :
                 Cardinality(PotentialCorrectLocations(KnownLocations(map, ideal, override), d, x)) = 1}}

\* _Reinit (not the first start): the table, map, missing set and sticky flag
\* it leaves behind, as a record.
Reinit(rows, ideal, override, d, bad) ==
    LET map1 == ReadClientFilesLocations(rows)
        missing1 == ReinitMissingLocations(map1, d)
        correct_rows == AttemptToHealMissingLocations(map1, ideal, override, d, missing1)
        rows2 == IF missing1 # {} THEN RepairRows(rows, correct_rows) ELSE rows
        map2 == ReadClientFilesLocations(rows2)
        missing2 == ReinitMissingLocations(map2, d)
    IN [rows |-> rows2, map |-> map2, missing |-> missing2,
        bad |-> (bad \/ missing2 # {}),
        repaired |-> IF missing1 # {} THEN correct_rows ELSE {}]

\* ------------------------------------------------------------------------
\* _GetRecoverTuple
\* ------------------------------------------------------------------------

\* position of a prefix in list( self._prefixes_to_locations.keys() )
PrefixIndex(p) == IF p[1] = "f" THEN p[2] ELSE NumHex + p[2]

\* the prefixes that have a directory in possible_location but belong elsewhere
Recoverable(map, d, possible_location) ==
    {p \in DOMAIN map : map[p] # possible_location /\ <<possible_location, p>> \in d}

\* The tuples _GetRecoverTuple may return: the set of locations is iterated
\* in no particular order, the prefixes in list order.
GetRecoverTuple(map, d) ==
    LET locs == {l \in {map[p] : p \in DOMAIN map} : Recoverable(map, d, l) # {}}
    IN IF locs = {} THEN {NoTuple}
       ELSE {LET p == CHOOSE q \in Recoverable(map, d, l) :
                        \A r \in Recoverable(map, d, l) : PrefixIndex(q) <= PrefixIndex(r)
             IN <<p, l, map[p]>> : l \in locs}

\* HydrusPaths.MergeTree( recoverable_path, correct_path )
MergeTree(d, prefix, recoverable_location, correct_location) ==
    (d \ {<<recoverable_location, prefix>>}) \cup {<<correct_location, prefix>>}

\* ------------------------------------------------------------------------
\* Rebalance
\* ------------------------------------------------------------------------

\* a job key that is never seen as cancelled
JobKeyNeverCancelled(cancelled) == FALSE

\* job_key.IsCancelled() at the head of a turn of either loop
JobKeyIsCancelled(cancelled) == cancelled

\* Rebalance up to the first _GetRebalanceTuple (the write lock is taken).
RebalanceBegin ==
    /\ reb_pc = "idle"
    /\ ~bad_error_occurred
    /\ rw_writer = {} /\ rw_readers = {}
    /\ \E t \in GetRebalanceTuple(prefixes_to_locations, ideal_locations, thumbnail_override) :
          rebalance_tuple' = t
    /\ reb_pc' = "rebalancing"
    /\ num_file_moves' = 0
    /\ num_thumb_moves' = 0
    /\ UNCHANGED <<maintVars, jobVars, lockVars, fsVars, configVars, driveVars, mapVars, dirs, env_ops, recover_tuple, reb_cancelled>>

\* Rebalance called after a bad error: it shows a text and returns.
RebalanceRefused ==
    /\ reb_pc = "idle"
    /\ bad_error_occurred
    /\ reb_pc' = "done"
    /\ UNCHANGED <<maintVars, jobVars, lockVars, fsVars, configVars, driveVars, mapVars, dirs, env_ops, rebalance_tuple, recover_tuple,
                   reb_cancelled, num_file_moves, num_thumb_moves>>

\* The rest of a turn of the while loop, from position pc: relocate, _Reinit,
\* _GetRebalanceTuple.
RelocateAndReinit(pc) ==
    /\ reb_pc = pc
    /\ LET prefix == rebalance_tuple[1]
           source == rebalance_tuple[2]
           dest == rebalance_tuple[3]
           rows1 == RelocateRows(db_client_files_locations, prefix, dest)
           dirs1 == RelocateDirs(dirs, prefix, source, dest)
           r == Reinit(rows1, ideal_locations, thumbnail_override, dirs1, bad_error_occurred)
       IN /\ db_client_files_locations' = r.rows
          /\ dirs' = dirs1
          /\ prefixes_to_locations' = r.map
          /\ missing_locations' = r.missing
          /\ bad_error_occurred' = r.bad
          /\ repair_rows' = IF r.repaired # {} THEN r.repaired ELSE repair_rows
          /\ \E t \in GetRebalanceTuple(r.map, ideal_locations, thumbnail_override) :
                rebalance_tuple' = t
          /\ IF prefix[1] = "f"
             THEN /\ num_file_moves' = Min(num_file_moves + 1, MoveCap)
                  /\ UNCHANGED num_thumb_moves
             ELSE /\ num_thumb_moves' = Min(num_thumb_moves + 1, MoveCap)
                  /\ UNCHANGED num_file_moves
    /\ reb_pc' = "rebalancing"
    /\ UNCHANGED <<maintVars, jobVars, lockVars, fsVars, configVars, driveVars, env_ops, recover_tuple, reb_cancelled>>

\* One iteration of the while loop: the test of the job key, relocate,
\* _Reinit, _GetRebalanceTuple.
RebalanceMove ==
    /\ rebalance_tuple # NoTuple
    /\ ~JobKeyIsCancelled(reb_cancelled)
    /\ RelocateAndReinit("rebalancing")

RebalanceStays(pc) ==
    /\ reb_pc' = pc
    /\ UNCHANGED <<maintVars, jobVars, lockVars, fsVars, configVars, driveVars, mapVars, dirs,
                   env_ops, rebalance_tuple, recover_tuple, reb_cancelled, num_file_moves,
                   num_thumb_moves>>

\* The head of a turn of the while loop alone: the job key is not cancelled,
\* the status text is set
RebalanceMoveHead ==
    /\ reb_pc = "rebalancing"
    /\ rebalance_tuple # NoTuple
    /\ ~JobKeyIsCancelled(reb_cancelled)
    /\ RebalanceStays("moving")

\* The rest of the turn
RebalanceMoveBody == RelocateAndReinit("moving")

\* The while loop ends (no tuple, or cancelled) and the first
\* _GetRecoverTuple is made.
RebalanceToRecover ==
    /\ reb_pc = "rebalancing"
    /\ rebalance_tuple = NoTuple \/ JobKeyIsCancelled(reb_cancelled)
    /\ \E t \in GetRecoverTuple(prefixes_to_locations, dirs) : recover_tuple' = t
    /\ reb_pc' = "recovering"
    /\ UNCHANGED <<maintVars, jobVars, lockVars, fsVars, configVars, driveVars, mapVars, dirs, env_ops, rebalance_tuple, reb_cancelled,
                   num_file_moves, num_thumb_moves>>

\* The rest of a turn of the recovery loop, from position pc: MergeTree,
\* _GetRecoverTuple.
MergeAndLook(pc) ==
    /\ reb_pc = pc
    /\ dirs' = MergeTree(dirs, recover_tuple[1], recover_tuple[2], recover_tuple[3])
    /\ \E t \in GetRecoverTuple(prefixes_to_locations, dirs') : recover_tuple' = t
    /\ reb_pc' = "recovering"
    /\ UNCHANGED <<maintVars, jobVars, lockVars, fsVars, configVars, driveVars, mapVars, env_ops, rebalance_tuple, reb_cancelled,
                   num_file_moves, num_thumb_moves>>

\* One iteration of the recovery loop: the test of the job key, MergeTree,
\* _GetRecoverTuple.
RebalanceRecover ==
    /\ recover_tuple # NoTuple
    /\ ~JobKeyIsCancelled(reb_cancelled)
    /\ MergeAndLook("recovering")

\* The head of a turn of the recovery loop alone
RebalanceRecoverHead ==
    /\ reb_pc = "recovering"
    /\ recover_tuple # NoTuple
    /\ ~JobKeyIsCancelled(reb_cancelled)
    /\ RebalanceStays("merging")

\* The rest of the turn
RebalanceRecoverBody == MergeAndLook("merging")

\* The recovery loop ends, the write lock is released and the finally block
\* finishes the job key.
RebalanceEnd ==
    /\ reb_pc = "recovering"
    /\ recover_tuple = NoTuple \/ JobKeyIsCancelled(reb_cancelled)
    /\ reb_pc' = "done"
    /\ UNCHANGED <<maintVars, jobVars, lockVars, fsVars, configVars, driveVars, mapVars, dirs, env_ops, rebalance_tuple, recover_tuple,
                   reb_cancelled, num_file_moves, num_thumb_moves>>

\* The call has returned; Rebalance may be called again with a new job key.
RebalanceReturn ==
    /\ reb_pc = "done"
    /\ reb_pc' = "idle"
    /\ reb_cancelled' = FALSE
    /\ UNCHANGED <<maintVars, jobVars, lockVars, fsVars, configVars, driveVars, mapVars, dirs, env_ops, rebalance_tuple, recover_tuple,
                   num_file_moves, num_thumb_moves>>

\* job_key.Cancel() by the user.
RebalanceCancel ==
    /\ reb_pc \in {"rebalancing", "moving", "recovering", "merging"}
    /\ ~reb_cancelled
    /\ reb_cancelled' = TRUE
    /\ UNCHANGED <<maintVars, jobVars, lockVars, fsVars, configVars, driveVars, mapVars, dirs, env_ops, reb_pc, rebalance_tuple,
                   recover_tuple, num_file_moves, num_thumb_moves>>

\* __init__ on a start that is not the first: the locks and flags are made
\* and _Reinit loads the map from the table, heals it and sets the flag.
ConstructReinit ==
    /\ reb_pc = "constructing"
    /\ LET r == Reinit(db_client_files_locations, ideal_locations, thumbnail_override,
                       dirs, FALSE)
       IN /\ db_client_files_locations' = r.rows
          /\ prefixes_to_locations' = r.map
          /\ missing_locations' = r.missing
          /\ bad_error_occurred' = r.bad
          /\ repair_rows' = r.repaired
    /\ reb_pc' = "idle"
    /\ UNCHANGED <<maintVars, jobVars, lockVars, fsVars, configVars, driveVars, dirs, env_ops, rebalance_tuple,
                   recover_tuple, reb_cancelled, num_file_moves, num_thumb_moves>>

\* ------------------------------------------------------------------------
\* The operator changes the disk under the program
\* ------------------------------------------------------------------------

\* the operator works on the directories of the first hex prefix
OperatorPrefixes == {FilePrefix(1), ThumbnailPrefix(1)}

OperatorDirs == {x \in dirs : x[2] \in OperatorPrefixes}

ExternalMoveDir ==
    /\ env_ops < MaxEnvOps
    /\ \E x \in OperatorDirs : \E to \in Locations :
          /\ <<to, x[2]>> \notin dirs
          /\ dirs' = (dirs \ {x}) \cup {<<to, x[2]>>}
    /\ env_ops' = env_ops + 1
    /\ UNCHANGED <<maintVars, jobVars, lockVars, fsVars, configVars, driveVars, mapVars, rebVars>>

ExternalRemoveDir ==
    /\ env_ops < MaxEnvOps
    /\ \E x \in OperatorDirs : dirs' = dirs \ {x}
    /\ env_ops' = env_ops + 1
    /\ UNCHANGED <<maintVars, jobVars, lockVars, fsVars, configVars, driveVars, mapVars, rebVars>>

ExternalCopyDir ==
    /\ env_ops < MaxEnvOps
    /\ \E x \in OperatorDirs : \E to \in Locations :
          /\ <<to, x[2]>> \notin dirs
          /\ dirs' = dirs \cup {<<to, x[2]>>}
    /\ env_ops' = env_ops + 1
    /\ UNCHANGED <<maintVars, jobVars, lockVars, fsVars, configVars, driveVars, mapVars, rebVars>>

\* ------------------------------------------------------------------------
\* The file read/write lock and the calls into the file store
\* ------------------------------------------------------------------------

RebalanceHoldsWriteLock == reb_pc \in {"rebalancing", "moving", "recovering", "merging"}

\* 'with self._rwlock.read' can be entered
ReadLockFree == rw_writer = {} /\ ~RebalanceHoldsWriteLock

\* 'with self._rwlock.write' can be entered
WriteLockFree == rw_writer = {} /\ rw_readers = {} /\ ~RebalanceHoldsWriteLock

Enter(t, pc, arg) ==
    /\ fs_pc' = [fs_pc EXCEPT ![t] = pc]
    /\ fs_arg' = [fs_arg EXCEPT ![t] = arg]
    /\ UNCHANGED was_regenerated

Goto(t, pc) ==
    /\ fs_pc' = [fs_pc EXCEPT ![t] = pc]
    /\ UNCHANGED <<fs_arg, was_regenerated>>

Return(t) ==
    /\ fs_pc' = [fs_pc EXCEPT ![t] = "idle"]
    /\ fs_arg' = [fs_arg EXCEPT ![t] = NoTuple]
    /\ UNCHANGED was_regenerated

\* the call the thread is in was made by _RegenFileThumbnailRefit
CalledByRefit(t) == Len(fs_arg[t]) = 4

\* RegenerateThumbnailIfWrongSize returns value, or raises (value None); the
\* call of _RegenFileThumbnailRefit around it, if any, returns the same
ReturnWasRegenerated(t, value) ==
    /\ fs_pc' = [fs_pc EXCEPT ![t] = "idle"]
    /\ fs_arg' = [fs_arg EXCEPT ![t] = NoTuple]
    /\ was_regenerated' = IF CalledByRefit(t) THEN Append(was_regenerated, value)
                          ELSE was_regenerated

\* _LookForFilePath: the first allowed mime under which the file exists
LookForFilePath(fs, hash) ==
    LET found == {i \in DOMAIN MimeOrder : <<hash, MimeOrder[i]>> \in fs}
    IN IF found = {} THEN None
       ELSE MimeOrder[CHOOSE i \in found : \A j \in found : i <= j]

\* _ChangeFileExt: the file sets it may leave. MergeFile renames; MirrorFile
\* copies and leaves the file under the old extension in place.
ChangeFileExtResults(fs, hash, old_mime, mime) ==
    IF old_mime = mime \/ <<hash, old_mime>> \notin fs
    THEN {fs}
    ELSE {(fs \ {<<hash, old_mime>>}) \cup {<<hash, mime>>}, fs \cup {<<hash, mime>>}}

\* hash.hex()[:2]: the hex prefix the hash begins with
HashHexPrefix(hash) == ((hash - 1) % NumHex) + 1

\* _GetFileStorageFreeSpace: <<free_space, self._locations_to_free_space>> as
\* it may return; a value on record is kept until its check period has passed
GetFileStorageFreeSpace(cache, disk, map, hash) ==
    LET location == map[FilePrefix(HashHexPrefix(hash))]
        fetched == <<disk[location],
                     [l \in DOMAIN cache \cup {location} |->
                         IF l = location THEN disk[location] ELSE cache[l]]>>
    IN IF location \in DOMAIN cache
       THEN {<<cache[location], cache>>, fetched}
       ELSE {fetched}

\* _AddFile: the test that refuses the copy, without its file size part
AddFileRefusesUnder100MB(dest_free_space, file_size) ==
    dest_free_space < HundredMegabytes

\* _AddFile: dest_free_space < 100 * 1048576 or dest_free_space < file_size
AddFileRefuses(dest_free_space, file_size) ==
    dest_free_space < HundredMegabytes \/ dest_free_space < file_size

\* HydrusPaths.MirrorFile: what it may return; a file that is not there yet
\* needs its size on the drive
MirrorFile(fs, disk, map, hash, mime, file_size) ==
    IF <<hash, mime>> \in fs \/ disk[map[FilePrefix(HashHexPrefix(hash))]] >= file_size
    THEN BOOLEAN
    ELSE {FALSE}

\* what a call of AddFile did: the free space it got, whether it called
\* MirrorFile, its calls of _HandleCriticalDriveError, whether it raised
AddFileOutcome(free_space, mirrored, errors, raised) ==
    [dest_free_space |-> free_space, mirror_called |-> mirrored,
     critical_drive_errors |-> errors, raised |-> raised]

\* AddFile: the write lock is taken
AddFileAcquire(t) ==
    /\ fs_pc[t] = "idle"
    /\ WriteLockFree
    /\ rw_writer' = {t}
    /\ \E h \in Hashes : \E m \in Mimes : \E file_size \in FileSizes : \E thumbnail_bytes \in BOOLEAN :
          Enter(t, "AddFile_add", <<h, m, None, file_size, thumbnail_bytes>>)
    /\ UNCHANGED <<rw_readers, files, thumbnails, storeVars, maintVars, jobVars>>

\* AddFile: _AddFile, and _AddThumbnailFromBytes when there are thumbnail bytes
AddFileAdd(t) ==
    /\ fs_pc[t] = "AddFile_add"
    /\ LET hash == fs_arg[t][1]
           mime == fs_arg[t][2]
           file_size == fs_arg[t][4]
           thumbnail_bytes == fs_arg[t][5]
       IN \E got \in GetFileStorageFreeSpace(locations_to_free_space, disk_free_space,
                                             prefixes_to_locations, hash) :
             /\ locations_to_free_space' = got[2]
             /\ IF AddFileRefuses(got[1], file_size)
                THEN /\ paused' = TRUE
                     /\ UNCHANGED <<files, thumbnails>>
                     /\ Enter(t, "AddFile_release", AddFileOutcome(got[1], FALSE, 1, TRUE))
                ELSE \E successful \in MirrorFile(files, disk_free_space, prefixes_to_locations,
                                                  hash, mime, file_size) :
                        IF ~successful
                        THEN /\ paused' = TRUE
                             /\ UNCHANGED <<files, thumbnails>>
                             /\ Enter(t, "AddFile_release", AddFileOutcome(got[1], TRUE, 1, TRUE))
                        ELSE /\ files' = files \cup {<<hash, mime>>}
                             /\ UNCHANGED paused
                             /\ IF thumbnail_bytes
                                THEN \E written \in BOOLEAN :
                                        /\ thumbnails' = IF written
                                                         THEN [thumbnails EXCEPT ![hash] = "right"]
                                                         ELSE thumbnails
                                        /\ Enter(t, "AddFile_release",
                                                 AddFileOutcome(got[1], TRUE, 0, ~written))
                                ELSE /\ UNCHANGED thumbnails
                                     /\ Enter(t, "AddFile_release",
                                              AddFileOutcome(got[1], TRUE, 0, FALSE))
    /\ UNCHANGED <<lockVars, disk_free_space, configVars, mapVars, rebVars, dirs, env_ops, maintVars, jobVars>>

\* AddFile: 'with self._rwlock.write' is left, by return or by exception
AddFileRelease(t) ==
    /\ fs_pc[t] = "AddFile_release"
    /\ rw_writer' = {}
    /\ Return(t)
    /\ UNCHANGED <<rw_readers, files, thumbnails, storeVars, maintVars, jobVars>>

\* Other programs write to a drive in use or free space on it.
DiskFreeSpaceChanges ==
    /\ \E l \in Range(prefixes_to_locations) : \E free_space \in FreeSpaces :
          /\ free_space # disk_free_space[l]
          /\ disk_free_space' = [disk_free_space EXCEPT ![l] = free_space]
    /\ UNCHANGED <<locations_to_free_space, paused, configVars, mapVars, rebVars, dirs, env_ops,
                   lockVars, fsVars, maintVars, jobVars>>

\* GetFilePath: the read lock is taken
GetFilePathAcquire(t) ==
    /\ fs_pc[t] = "idle"
    /\ ReadLockFree
    /\ rw_readers' = rw_readers \cup {t}
    /\ \E h \in Hashes : \E m \in Mimes \cup {None} : Enter(t, "GetFilePath_look", <<h, m, None>>)
    /\ UNCHANGED <<rw_writer, files, thumbnails, storeVars, maintVars, jobVars>>

\* GetFilePath: the path is made and looked up; a file found under another
\* extension leads to _ChangeFileExt, everything else returns or raises
GetFilePathLook(t) ==
    /\ fs_pc[t] = "GetFilePath_look"
    /\ LET hash == fs_arg[t][1]
           mime == fs_arg[t][2]
           old_mime == LookForFilePath(files, hash)
       IN IF mime # None /\ <<hash, mime>> \notin files /\ old_mime # None
          THEN /\ Enter(t, "GetFilePath_changeext", <<hash, mime, old_mime>>)
               /\ UNCHANGED rw_readers
          ELSE /\ Return(t)
               /\ rw_readers' = rw_readers \ {t}
    /\ UNCHANGED <<rw_writer, files, thumbnails, storeVars, maintVars, jobVars>>

\* GetFilePath: self._ChangeFileExt( hash, old_mime, mime ), then the read
\* lock is released
GetFilePathChangeExt(t) ==
    /\ fs_pc[t] = "GetFilePath_changeext"
    /\ files' \in ChangeFileExtResults(files, fs_arg[t][1], fs_arg[t][3], fs_arg[t][2])
    /\ rw_readers' = rw_readers \ {t}
    /\ Return(t)
    /\ UNCHANGED <<rw_writer, thumbnails, storeVars, maintVars, jobVars>>

\* ChangeFileExt: the write lock is taken
ChangeFileExtAcquire(t) ==
    /\ fs_pc[t] = "idle"
    /\ WriteLockFree
    /\ rw_writer' = {t}
    /\ \E h \in Hashes : \E old \in Mimes : \E m \in Mimes :
          Enter(t, "ChangeFileExt_change", <<h, m, old>>)
    /\ UNCHANGED <<rw_readers, files, thumbnails, storeVars, maintVars, jobVars>>

ChangeFileExtChange(t) ==
    /\ fs_pc[t] = "ChangeFileExt_change"
    /\ files' \in ChangeFileExtResults(files, fs_arg[t][1], fs_arg[t][3], fs_arg[t][2])
    /\ rw_writer' = {}
    /\ Return(t)
    /\ UNCHANGED <<rw_readers, thumbnails, storeVars, maintVars, jobVars>>

\* LocklessAddFileFromBytes: the path is made
LocklessAddFileBegin(t) ==
    /\ fs_pc[t] = "idle"
    /\ \E h \in Hashes : \E m \in Mimes : Enter(t, "LocklessAddFile_write", <<h, m, None>>)
    /\ UNCHANGED <<lockVars, files, thumbnails, storeVars, maintVars, jobVars>>

\* LocklessAddFileFromBytes: the bytes are written
LocklessAddFileWrite(t) ==
    /\ fs_pc[t] = "LocklessAddFile_write"
    /\ files' = files \cup {<<fs_arg[t][1], fs_arg[t][2]>>}
    /\ Return(t)
    /\ UNCHANGED <<lockVars, thumbnails, storeVars, maintVars, jobVars>>

\* LocklessHasThumbnail: the path is made
LocklessHasThumbnailBegin(t) ==
    /\ fs_pc[t] = "idle"
    /\ \E h \in Hashes : Enter(t, "LocklessHasThumbnail_probe", <<h, None, None>>)
    /\ UNCHANGED <<lockVars, files, thumbnails, storeVars, maintVars, jobVars>>

\* LocklessHasThumbnail: os.path.exists( path )
LocklessHasThumbnailProbe(t) ==
    /\ fs_pc[t] = "LocklessHasThumbnail_probe"
    /\ Return(t)
    /\ UNCHANGED <<lockVars, files, thumbnails, storeVars, maintVars, jobVars>>

\* RegenerateThumbnailIfWrongSize: the thumbnail path is made, no lock taken
RegenerateThumbnailIfWrongSizeBegin(t) ==
    /\ fs_pc[t] = "idle"
    /\ \E h \in Hashes : \E m \in Mimes :
          Enter(t, "RegenerateThumbnailIfWrongSize_probe", <<h, m, None>>)
    /\ UNCHANGED <<lockVars, files, thumbnails, storeVars, maintVars, jobVars>>

\* _RegenFileThumbnailRefit: None when _CanRegenThumbForMediaResult says
\* no, else RegenerateThumbnailIfWrongSize is called
RegenFileThumbnailRefit(t) ==
    /\ fs_pc[t] = "idle"
    /\ Len(was_regenerated) < MaxRefits
    /\ \E good_to_go \in BOOLEAN :
          IF good_to_go
          THEN \E h \in Hashes : \E m \in Mimes :
                  Enter(t, "RegenerateThumbnailIfWrongSize_probe",
                        <<h, m, None, "_RegenFileThumbnailRefit">>)
          ELSE /\ was_regenerated' = Append(was_regenerated, None)
               /\ UNCHANGED <<fs_pc, fs_arg>>
    /\ UNCHANGED <<lockVars, files, thumbnails, storeVars, maintVars, jobVars>>

\* do_it, as if every thumbnail had the wrong size
DoItAlways(thumbnail) == TRUE

\* do_it: the thumbnail cannot be read or has not the expected size
DoIt(thumbnail) == thumbnail # "right"

\* RegenerateThumbnailIfWrongSize: the thumbnail is read and measured; a
\* wrong size or a failed read calls RegenerateThumbnail
RegenerateThumbnailIfWrongSizeProbe(t) ==
    /\ fs_pc[t] = "RegenerateThumbnailIfWrongSize_probe"
    /\ IF DoIt(thumbnails[fs_arg[t][1]])
       THEN Goto(t, "RegenerateThumbnail_wait_read")
       ELSE ReturnWasRegenerated(t, "False")
    /\ UNCHANGED <<lockVars, files, thumbnails, storeVars, maintVars, jobVars>>

\* RegenerateThumbnail is called
RegenerateThumbnailBegin(t) ==
    /\ fs_pc[t] = "idle"
    /\ \E h \in Hashes : \E m \in Mimes :
          Enter(t, "RegenerateThumbnail_wait_read", <<h, m, None>>)
    /\ UNCHANGED <<lockVars, files, thumbnails, storeVars, maintVars, jobVars>>

\* RegenerateThumbnail: the read lock is taken
RegenerateThumbnailAcquireRead(t) ==
    /\ fs_pc[t] = "RegenerateThumbnail_wait_read"
    /\ ReadLockFree
    /\ rw_readers' = rw_readers \cup {t}
    /\ Goto(t, "RegenerateThumbnail_read")
    /\ UNCHANGED <<rw_writer, files, thumbnails, storeVars, maintVars, jobVars>>

\* RegenerateThumbnail: the file is looked up and rendered; a missing file
\* or a failed rendering raises FileMissingException
RegenerateThumbnailRead(t) ==
    /\ fs_pc[t] = "RegenerateThumbnail_read"
    /\ rw_readers' = rw_readers \ {t}
    /\ \/ ReturnWasRegenerated(t, None)
       \/ /\ <<fs_arg[t][1], fs_arg[t][2]>> \in files
          /\ Goto(t, "RegenerateThumbnail_wait_write")
    /\ UNCHANGED <<rw_writer, files, thumbnails, storeVars, maintVars, jobVars>>

\* RegenerateThumbnail: the write lock is taken
RegenerateThumbnailAcquireWrite(t) ==
    /\ fs_pc[t] = "RegenerateThumbnail_wait_write"
    /\ WriteLockFree
    /\ rw_writer' = {t}
    /\ Goto(t, "RegenerateThumbnail_write")
    /\ UNCHANGED <<rw_readers, files, thumbnails, storeVars, maintVars, jobVars>>

\* RegenerateThumbnail: _AddThumbnailFromBytes
RegenerateThumbnailWrite(t) ==
    /\ fs_pc[t] = "RegenerateThumbnail_write"
    /\ \/ /\ thumbnails' = [thumbnails EXCEPT ![fs_arg[t][1]] = "right"]
          /\ ReturnWasRegenerated(t, "True")
       \/ /\ UNCHANGED thumbnails
          /\ ReturnWasRegenerated(t, None)
    /\ rw_writer' = {}
    /\ UNCHANGED <<rw_readers, files, storeVars, maintVars, jobVars>>

\* GetThumbnailPath: the read lock is taken
GetThumbnailPathAcquire(t) ==
    /\ fs_pc[t] = "idle"
    /\ ReadLockFree
    /\ rw_readers' = rw_readers \cup {t}
    /\ \E h \in Hashes : \E m \in Mimes : Enter(t, "GetThumbnailPath_probe", <<h, m, None>>)
    /\ UNCHANGED <<rw_writer, files, thumbnails, storeVars, maintVars, jobVars>>

\* GetThumbnailPath: the path is probed and the lock released; a missing
\* thumbnail calls RegenerateThumbnail
GetThumbnailPathProbe(t) ==
    /\ fs_pc[t] = "GetThumbnailPath_probe"
    /\ rw_readers' = rw_readers \ {t}
    /\ IF thumbnails[fs_arg[t][1]] = "missing"
       THEN Goto(t, "RegenerateThumbnail_wait_read")
       ELSE Return(t)
    /\ UNCHANGED <<rw_writer, files, thumbnails, storeVars, maintVars, jobVars>>

\* DeleteNeighbourDupes: the write lock is taken
DeleteNeighbourDupesAcquire(t) ==
    /\ fs_pc[t] = "idle"
    /\ WriteLockFree
    /\ rw_writer' = {t}
    /\ \E h \in Hashes : \E m \in Mimes :
          Enter(t, "DeleteNeighbourDupes_delete", <<h, m, None>>)
    /\ UNCHANGED <<rw_readers, files, thumbnails, storeVars, maintVars, jobVars>>

\* DeleteNeighbourDupes: nothing when the file of the true mime is missing,
\* else the files under the other extensions are deleted
DeleteNeighbourDupesDelete(t) ==
    /\ fs_pc[t] = "DeleteNeighbourDupes_delete"
    /\ files' = IF <<fs_arg[t][1], fs_arg[t][2]>> \in files
                THEN {f \in files : f[1] # fs_arg[t][1] \/ f[2] = fs_arg[t][2]}
                ELSE files
    /\ rw_writer' = {}
    /\ Return(t)
    /\ UNCHANGED <<rw_readers, thumbnails, storeVars, maintVars, jobVars>>

\* The thumbnail options change: the thumbnails on disk have the wrong size.
ThumbnailOptionsChange ==
    /\ \E h \in Hashes : thumbnails[h] = "right"
    /\ thumbnails' = [h \in Hashes |-> IF thumbnails[h] = "right" THEN "wrong" ELSE thumbnails[h]]
    /\ UNCHANGED <<lockVars, fs_pc, fs_arg, files, was_regenerated, storeVars, maintVars, jobVars>>

FileStoreCall(t) ==
    \/ AddFileAcquire(t)
    \/ AddFileAdd(t)
    \/ AddFileRelease(t)
    \/ GetFilePathAcquire(t)
    \/ GetFilePathLook(t)
    \/ GetFilePathChangeExt(t)
    \/ ChangeFileExtAcquire(t)
    \/ ChangeFileExtChange(t)
    \/ LocklessAddFileBegin(t)
    \/ LocklessAddFileWrite(t)
    \/ LocklessHasThumbnailBegin(t)
    \/ LocklessHasThumbnailProbe(t)
    \/ RegenerateThumbnailIfWrongSizeBegin(t)
    \/ RegenerateThumbnailIfWrongSizeProbe(t)
    \/ RegenerateThumbnailBegin(t)
    \/ RegenerateThumbnailAcquireRead(t)
    \/ RegenerateThumbnailRead(t)
    \/ RegenerateThumbnailAcquireWrite(t)
    \/ RegenerateThumbnailWrite(t)
    \/ GetThumbnailPathAcquire(t)
    \/ GetThumbnailPathProbe(t)
    \/ DeleteNeighbourDupesAcquire(t)
    \/ DeleteNeighbourDupesDelete(t)

\* ------------------------------------------------------------------------
\* FilesMaintenanceManager: the job queue store
\* ------------------------------------------------------------------------

\* the hashes of S as a list
SortedSeq(S) ==
    SelectSeq([i \in 1..NumRecords |-> i], LAMBDA h : h \in S)

\* Read( 'file_maintenance_get_job' ): None when nothing is pending, else the
\* pending hashes of one job type
GetJob(queue) ==
    IF queue = {}
    THEN {None}
    ELSE {<<SortedSeq({r[1] : r \in {q \in queue : q[2] = k}}), k>> :
             k \in {q[2] : q \in queue}}

\* Read( 'media_results', hashes ): the hashes that have a record
MediaResults(hashes, known) ==
    SelectSeq(hashes, LAMBDA h : h \in known)

\* 'file_maintenance_clear_jobs' for the hashes hs of one job type
ClearJobsWrite(queue, hs, job_type) ==
    queue \ {<<h, job_type>> : h \in hs}

\* 'file_maintenance_add_jobs_hashes' that only inserts
AddJobsWriteInsertOnly(queue, hs, job_type) ==
    queue \cup {<<h, job_type>> : h \in hs}

\* the pending jobs an insertion of job_type for the hashes hs makes redundant
OverruledPending(queue, hs, job_type) ==
    {q \in queue : q[1] \in hs /\ q[2] \in OverruledJobs(job_type)}

\* 'file_maintenance_add_jobs_hashes': the overruled jobs of the hashes are
\* dropped, then the jobs are inserted
AddJobsWrite(queue, hs, job_type) ==
    (queue \ OverruledPending(queue, hs, job_type)) \cup {<<h, job_type>> : h \in hs}

\* 'file_maintenance_cancel_jobs'
CancelJobsWrite(queue, job_type) ==
    {q \in queue : q[2] # job_type}

\* ------------------------------------------------------------------------
\* FilesMaintenanceManager._RunJob
\* ------------------------------------------------------------------------

InRunJob(th) == m_pc[th] \in {"RunJob_loop", "RunJob_finally"}

\* if self._serious_error_encountered: return
RunJobRefuses(serious) == serious

ClearsJobOnlyOnSuccess(outcome) == outcome = "ok"

\* clear_job: True unless the body raised ShutdownException
ClearsJob(outcome) == outcome # "shutdown"

RaisesSeriousErrorNever(outcome) == FALSE

\* the IOError handler sets self._serious_error_encountered and self._shutdown
RaisesSeriousError(outcome) == outcome = "io"

\* the handlers that return from _RunJob: ShutdownException and IOError
HaltsBatch(outcome) == outcome \in {"shutdown", "io"}

\* a call or a batch is over; its locals are gone
EndCall(th, pc) ==
    /\ m_pc' = [m_pc EXCEPT ![th] = pc]
    /\ m_job' = [m_job EXCEPT ![th] = <<>>]
    /\ m_type' = [m_type EXCEPT ![th] = None]
    /\ m_idx' = [m_idx EXCEPT ![th] = 0]
    /\ m_cancelled' = [m_cancelled EXCEPT ![th] = FALSE]
    /\ m_after_error' = [m_after_error EXCEPT ![th] = FALSE]

\* a batch ends: the bookkeeping of interleaved batches starts afresh
BatchEnds(th) ==
    /\ m_batch_ran' = [m_batch_ran EXCEPT ![th] = FALSE]
    /\ m_intruded' = [m_intruded EXCEPT ![th] = FALSE]

\* the with block of _RunJob left without a release of self._lock
WithLockKept(th) == {th}

\* the end of with self._lock: the lock is free
WithLockExit(th) == {}

\* what follows the with self._lock block of the caller of _RunJob
AfterRunJob(th) ==
    /\ lock' = WithLockExit(th)
    /\ CASE th = "bg" ->
              \* i += 1, check_shutdown()
              IF shutdown' \/ serious_error_encountered'
              THEN /\ EndCall(th, "done")
                   /\ maintenance_lock' = {}
                   /\ BatchEnds(th)
              ELSE /\ m_pc' = [m_pc EXCEPT ![th] = "BG_wait"]
                   /\ m_idx' = [m_idx EXCEPT ![th] = @ + 1]
                   /\ UNCHANGED <<maintenance_lock, m_job, m_type, m_cancelled,
                                  m_after_error, batchVars>>
         [] th = "fm" ->
              /\ m_pc' = [m_pc EXCEPT ![th] = "FM_get_job"]
              /\ UNCHANGED <<maintenance_lock, m_job, m_type, m_idx, m_cancelled,
                             m_after_error, batchVars>>
         [] th = "rji" ->
              /\ EndCall(th, "idle")
              /\ BatchEnds(th)
              /\ UNCHANGED maintenance_lock

\* the thread holds self._lock and calls _RunJob( results, ... )
RunJobCall(th, results) ==
    IF RunJobRefuses(serious_error_encountered)
    THEN /\ UNCHANGED <<runVars, job_queue, flagVars>>
         /\ AfterRunJob(th)
    ELSE /\ lock' = {th}
         /\ m_pc' = [m_pc EXCEPT ![th] = IF results = <<>> THEN "RunJob_finally" ELSE "RunJob_loop"]
         /\ m_run' = [m_run EXCEPT ![th] = results]
         /\ UNCHANGED <<maintenance_lock, m_job, m_type, m_idx, m_cancelled, m_after_error,
                        m_cleared, m_reported, m_log, job_queue, flagVars, batchVars>>

\* the test at the head of the loop, without the job key
ReturnsBeforeRecordOnShutdown(is_cancelled, shutdown_flag) == shutdown_flag

\* the test at the head of the loop: job_key.IsCancelled() or self._shutdown
ReturnsBeforeRecord(is_cancelled, shutdown_flag) == is_cancelled \/ shutdown_flag

\* the flush test, as if only the ten seconds counted
FlushesOnTimeOnly(time_has_passed, num_cleared) == time_has_passed

\* the flush test after a record: ten seconds have passed since
\* last_time_jobs_were_cleared, or len( cleared_jobs ) > 256
FlushesClearedJobs(time_has_passed, num_cleared) ==
    time_has_passed \/ num_cleared > ClearedJobsLimit

\* one turn of the loop over media_results: the job body ends in one of
\* outcomes, and TimeHasPassed gives one of times
RunJobRecordOf(th, outcomes, times) ==
    /\ m_pc[th] = "RunJob_loop"
    /\ LET hash == m_run[th][Len(m_log[th]) + 1]
       IN IF ReturnsBeforeRecord(m_cancelled[th], shutdown)
          THEN /\ m_pc' = [m_pc EXCEPT ![th] = "RunJob_finally"]
               /\ UNCHANGED <<job_queue, flagVars, runVars, batchVars>>
          ELSE \E outcome \in outcomes, time_has_passed \in times :
               LET log == Append(m_log[th], outcome)
                   cleared == IF ClearsJob(outcome)
                              THEN m_cleared[th] \cup {hash}
                              ELSE m_cleared[th]
                   halts == HaltsBatch(outcome)
                   flush == ~halts /\ FlushesClearedJobs(time_has_passed, Cardinality(cleared))
               IN /\ m_log' = [m_log EXCEPT ![th] = log]
                  /\ serious_error_encountered' =
                        (serious_error_encountered \/ RaisesSeriousError(outcome))
                  /\ shutdown' = (shutdown \/ RaisesSeriousError(outcome))
                  /\ m_cleared' = [m_cleared EXCEPT ![th] = IF flush THEN {} ELSE cleared]
                  /\ m_reported' = [m_reported EXCEPT ![th] = IF flush THEN @ \cup cleared ELSE @]
                  /\ job_queue' = IF flush
                                  THEN ClearJobsWrite(job_queue, cleared, m_type[th])
                                  ELSE job_queue
                  /\ m_pc' = [m_pc EXCEPT ![th] =
                                 IF halts \/ Len(log) = Len(m_run[th])
                                 THEN "RunJob_finally" ELSE "RunJob_loop"]
                  /\ m_batch_ran' = [m_batch_ran EXCEPT ![th] = TRUE]
                  /\ m_intruded' = [o \in MThreads |->
                                       IF o = th THEN m_intruded[o]
                                       ELSE m_intruded[o] \/ m_batch_ran[o]]
                  /\ UNCHANGED <<m_run, reset_background_event, wake_background_event>>
    /\ UNCHANGED <<media_hashes, able, mutexVars, m_job, m_type, m_idx, m_cancelled,
                   m_after_error, storeVars, lockVars, fsVars, jobVars>>

\* one turn of the loop over media_results
RunJobRecord(th) == RunJobRecordOf(th, Outcomes, BOOLEAN)

\* the outer finally writes what is left in cleared_jobs; _RunJob returns
RunJobFinally(th) ==
    /\ m_pc[th] = "RunJob_finally"
    /\ job_queue' = ClearJobsWrite(job_queue, m_cleared[th], m_type[th])
    /\ m_run' = [m_run EXCEPT ![th] = <<>>]
    /\ m_log' = [m_log EXCEPT ![th] = <<>>]
    /\ m_cleared' = [m_cleared EXCEPT ![th] = {}]
    /\ m_reported' = [m_reported EXCEPT ![th] = {}]
    /\ UNCHANGED flagVars
    /\ AfterRunJob(th)
    /\ UNCHANGED <<media_hashes, able, storeVars, lockVars, fsVars, jobVars>>

\* ------------------------------------------------------------------------
\* FilesMaintenanceManager.MainLoopBackgroundWork
\* ------------------------------------------------------------------------

\* check_shutdown() raises
CheckShutdownRaises == shutdown \/ serious_error_encountered

MaintStoreUnchanged == UNCHANGED <<storeVars, lockVars, fsVars, jobVars>>

\* Start(), and the start-up delay
BGStart ==
    /\ m_pc["bg"] = "idle"
    /\ m_pc' = [m_pc EXCEPT !["bg"] = IF CheckShutdownRaises THEN "done" ELSE "BG_head"]
    /\ UNCHANGED <<job_queue, media_hashes, able, flagVars, mutexVars, m_job, m_type, m_idx,
                   m_cancelled, m_after_error, runVars, batchVars>>
    /\ MaintStoreUnchanged

\* the head of the main loop: check_shutdown()
BGHead ==
    /\ m_pc["bg"] = "BG_head"
    /\ m_pc' = [m_pc EXCEPT !["bg"] = IF CheckShutdownRaises THEN "done" ELSE "BG_acquire"]
    /\ m_after_error' = [m_after_error EXCEPT !["bg"] = serious_error_encountered]
    /\ UNCHANGED <<job_queue, media_hashes, able, flagVars, mutexVars, m_job, m_type, m_idx,
                   m_cancelled, runVars, batchVars>>
    /\ MaintStoreUnchanged

\* with self._maintenance_lock: read the job, clear the jobs of missing hashes
BGAcquire ==
    /\ m_pc["bg"] = "BG_acquire"
    /\ maintenance_lock = {}
    /\ \E job \in GetJob(job_queue) :
          IF job = None
          THEN /\ m_pc' = [m_pc EXCEPT !["bg"] = "BG_idle_wait"]
               /\ UNCHANGED <<job_queue, maintenance_lock, m_job, m_type, m_idx>>
          ELSE LET media_results == MediaResults(job[1], media_hashes)
                   missing_hashes == Range(job[1]) \ media_hashes
               IN /\ maintenance_lock' = {"bg"}
                  /\ job_queue' = ClearJobsWrite(job_queue, missing_hashes, job[2])
                  /\ m_job' = [m_job EXCEPT !["bg"] = media_results]
                  /\ m_type' = [m_type EXCEPT !["bg"] = job[2]]
                  /\ m_idx' = [m_idx EXCEPT !["bg"] = 0]
                  /\ m_pc' = [m_pc EXCEPT !["bg"] = "BG_wait"]
    /\ BatchEnds("bg")
    /\ UNCHANGED <<media_hashes, able, flagVars, lock, m_cancelled, m_after_error, runVars>>
    /\ MaintStoreUnchanged

\* where wait_on_maintenance() leaves its loop: at the first operand of the
\* or, after _AbleToDoBackgroundMaintenance() returned True, or at the second,
\* after it returned False and the reset event was found set
WaitOnMaintenanceBreak(is_able) ==
    IF is_able THEN "BG_should_reset" ELSE "BG_should_reset_unable"

\* the for loop ends, or wait_on_maintenance() raises or lets the record pass
BGWait ==
    /\ m_pc["bg"] = "BG_wait"
    /\ IF m_idx["bg"] >= Len(m_job["bg"])
       THEN /\ EndCall("bg", "BG_sleep")
            /\ maintenance_lock' = {}
            /\ BatchEnds("bg")
       ELSE IF CheckShutdownRaises
       THEN /\ EndCall("bg", "done")
            /\ maintenance_lock' = {}
            /\ BatchEnds("bg")
       ELSE /\ able \/ reset_background_event
            /\ m_pc' = [m_pc EXCEPT !["bg"] = WaitOnMaintenanceBreak(able)]
            /\ UNCHANGED <<maintenance_lock, batchVars, m_job, m_type, m_idx,
                           m_cancelled, m_after_error>>
    /\ UNCHANGED <<job_queue, media_hashes, able, flagVars, lock, runVars>>
    /\ MaintStoreUnchanged

\* should_reset() without its test of the event
ShouldResetNever(reset) == FALSE

\* should_reset() returns True: self._reset_background_event.is_set()
ShouldReset(reset) == reset

\* should_reset(): the reset signal is consumed and the job is dropped
BGShouldReset ==
    /\ m_pc["bg"] \in {"BG_should_reset", "BG_should_reset_unable"}
    /\ IF ShouldReset(reset_background_event)
       THEN /\ reset_background_event' = FALSE
            /\ EndCall("bg", "BG_sleep")
            /\ maintenance_lock' = {}
            /\ BatchEnds("bg")
       ELSE /\ m_pc' = [m_pc EXCEPT !["bg"] = "BG_lock"]
            /\ UNCHANGED <<reset_background_event, maintenance_lock, batchVars, m_job,
                           m_type, m_idx, m_cancelled, m_after_error>>
    /\ UNCHANGED <<job_queue, media_hashes, able, serious_error_encountered, shutdown,
                   wake_background_event, lock, runVars>>
    /\ MaintStoreUnchanged

\* with self._lock: self._RunJob( ( media_result, ), job_type, job_key )
BGLock ==
    /\ m_pc["bg"] = "BG_lock"
    /\ lock = {}
    /\ RunJobCall("bg", <<m_job["bg"][m_idx["bg"] + 1]>>)
    /\ UNCHANGED <<media_hashes, able>>
    /\ MaintStoreUnchanged

\* self._wake_background_event.wait( 600 ) is over; the event is cleared
BGIdleWait ==
    /\ m_pc["bg"] = "BG_idle_wait"
    /\ wake_background_event' = FALSE
    /\ m_pc' = [m_pc EXCEPT !["bg"] = "BG_sleep"]
    /\ UNCHANGED <<job_queue, media_hashes, able, serious_error_encountered, shutdown,
                   reset_background_event, mutexVars, m_job, m_type, m_idx, m_cancelled,
                   m_after_error, runVars, batchVars>>
    /\ MaintStoreUnchanged

\* self._wake_background_event.wait( 600 ) returns: the event is set
BGIdleWaitReturns ==
    /\ m_pc["bg"] = "BG_idle_wait"
    /\ wake_background_event
    /\ m_pc' = [m_pc EXCEPT !["bg"] = "BG_idle_clear"]
    /\ UNCHANGED <<job_queue, media_hashes, able, flagVars, mutexVars, m_job, m_type, m_idx,
                   m_cancelled, m_after_error, runVars, batchVars>>
    /\ MaintStoreUnchanged

\* self._wake_background_event.wait( 600 ) returns: the ten minutes are over
BGIdleWaitTimesOut ==
    /\ m_pc["bg"] = "BG_idle_wait"
    /\ ~wake_background_event
    /\ m_pc' = [m_pc EXCEPT !["bg"] = "BG_idle_clear"]
    /\ UNCHANGED <<job_queue, media_hashes, able, flagVars, mutexVars, m_job, m_type, m_idx,
                   m_cancelled, m_after_error, runVars, batchVars>>
    /\ MaintStoreUnchanged

\* self._wake_background_event.clear()
BGIdleClear ==
    /\ m_pc["bg"] = "BG_idle_clear"
    /\ wake_background_event' = FALSE
    /\ m_pc' = [m_pc EXCEPT !["bg"] = "BG_sleep"]
    /\ UNCHANGED <<job_queue, media_hashes, able, serious_error_encountered, shutdown,
                   reset_background_event, mutexVars, m_job, m_type, m_idx, m_cancelled,
                   m_after_error, runVars, batchVars>>
    /\ MaintStoreUnchanged

\* time.sleep( 2 ) is over
BGSleep ==
    /\ m_pc["bg"] = "BG_sleep"
    /\ m_pc' = [m_pc EXCEPT !["bg"] = "BG_head"]
    /\ UNCHANGED <<job_queue, media_hashes, able, flagVars, mutexVars, m_job, m_type, m_idx,
                   m_cancelled, m_after_error, runVars, batchVars>>
    /\ MaintStoreUnchanged

\* ------------------------------------------------------------------------
\* FilesMaintenanceManager.ForceMaintenance and RunJobImmediately
\* ------------------------------------------------------------------------

ResetAfterForceMaintenanceKept(reset) == reset

\* self._reset_background_event.set()
ResetAfterForceMaintenance(reset) == TRUE

ForceMaintenanceRefusesNever(serious) == FALSE

\* if self._serious_error_encountered: return
ForceMaintenanceRefuses(serious) == serious

\* the call until it waits for self._maintenance_lock
ForceMaintenanceCall ==
    /\ m_pc["fm"] = "idle"
    /\ IF ForceMaintenanceRefuses(serious_error_encountered)
       THEN UNCHANGED <<reset_background_event, callVars>>
       ELSE /\ reset_background_event' = ResetAfterForceMaintenance(reset_background_event)
            /\ m_pc' = [m_pc EXCEPT !["fm"] = "FM_acquire"]
            /\ m_cancelled' = [m_cancelled EXCEPT !["fm"] = FALSE]
            /\ m_after_error' = [m_after_error EXCEPT !["fm"] = serious_error_encountered]
            /\ UNCHANGED <<m_job, m_type, m_idx>>
    /\ BatchEnds("fm")
    /\ UNCHANGED <<job_queue, media_hashes, able, serious_error_encountered, shutdown,
                   wake_background_event, mutexVars, runVars>>
    /\ MaintStoreUnchanged

\* with self._maintenance_lock
ForceMaintenanceAcquire ==
    /\ m_pc["fm"] = "FM_acquire"
    /\ maintenance_lock = {}
    /\ maintenance_lock' = {"fm"}
    /\ m_pc' = [m_pc EXCEPT !["fm"] = "FM_get_job"]
    /\ UNCHANGED <<job_queue, media_hashes, able, flagVars, lock, m_job, m_type, m_idx,
                   m_cancelled, m_after_error, runVars, batchVars>>
    /\ MaintStoreUnchanged

\* one turn of the while loop up to with self._lock
ForceMaintenanceGetJob ==
    /\ m_pc["fm"] = "FM_get_job"
    /\ \E job \in GetJob(job_queue) :
          IF job = None \/ m_cancelled["fm"]
          THEN /\ EndCall("fm", "idle")
               /\ maintenance_lock' = {}
               /\ BatchEnds("fm")
               /\ UNCHANGED job_queue
          ELSE LET media_results == MediaResults(job[1], media_hashes)
                   missing_hashes == Range(job[1]) \ media_hashes
               IN /\ job_queue' = ClearJobsWrite(job_queue, missing_hashes, job[2])
                  /\ m_job' = [m_job EXCEPT !["fm"] = media_results]
                  /\ m_type' = [m_type EXCEPT !["fm"] = job[2]]
                  /\ m_pc' = [m_pc EXCEPT !["fm"] = "FM_lock"]
                  /\ UNCHANGED <<maintenance_lock, batchVars, m_idx, m_cancelled, m_after_error>>
    /\ UNCHANGED <<media_hashes, able, flagVars, lock, runVars>>
    /\ MaintStoreUnchanged

\* with self._lock: self._RunJob( media_results, job_type, job_key, ... )
ForceMaintenanceLock ==
    /\ m_pc["fm"] = "FM_lock"
    /\ lock = {}
    /\ RunJobCall("fm", m_job["fm"])
    /\ UNCHANGED <<media_hashes, able>>
    /\ MaintStoreUnchanged

\* the media results a caller can hand over
ImmediateBatches == {SortedSeq(S) : S \in SUBSET Records \ {{}}}

\* if self._serious_error_encountered and pub_job_key: return
RunJobImmediatelyRefuses(serious, pub_job_key) == serious /\ pub_job_key

\* the call until it waits for self._lock
RunJobImmediatelyCallOf(batches) ==
    /\ m_pc["rji"] = "idle"
    /\ \E media_results \in batches, job_type \in JobTypes, pub_job_key \in BOOLEAN :
          IF RunJobImmediatelyRefuses(serious_error_encountered, pub_job_key)
          THEN UNCHANGED <<reset_background_event, callVars>>
          ELSE /\ reset_background_event' = TRUE
               /\ m_pc' = [m_pc EXCEPT !["rji"] = "RJI_lock"]
               /\ m_job' = [m_job EXCEPT !["rji"] = media_results]
               /\ m_type' = [m_type EXCEPT !["rji"] = job_type]
               /\ m_cancelled' = [m_cancelled EXCEPT !["rji"] = FALSE]
               /\ m_after_error' = [m_after_error EXCEPT !["rji"] = serious_error_encountered]
               /\ UNCHANGED m_idx
    /\ BatchEnds("rji")
    /\ UNCHANGED <<job_queue, media_hashes, able, serious_error_encountered, shutdown,
                   wake_background_event, mutexVars, runVars>>
    /\ MaintStoreUnchanged

RunJobImmediatelyCall == RunJobImmediatelyCallOf(ImmediateBatches)

\* with self._lock: self._RunJob( media_results, job_type, job_key, ... )
RunJobImmediatelyLock ==
    /\ m_pc["rji"] = "RJI_lock"
    /\ lock = {}
    /\ RunJobCall("rji", m_job["rji"])
    /\ UNCHANGED <<media_hashes, able>>
    /\ MaintStoreUnchanged

\* the user cancels the job key of a running call
JobKeyCancel(th) ==
    /\ th \in {"fm", "rji"}
    /\ m_pc[th] # "idle"
    /\ ~m_cancelled[th]
    /\ m_cancelled' = [m_cancelled EXCEPT ![th] = TRUE]
    /\ UNCHANGED <<job_queue, media_hashes, able, flagVars, mutexVars, m_pc, m_job, m_type,
                   m_idx, m_after_error, runVars, batchVars>>
    /\ MaintStoreUnchanged

\* ------------------------------------------------------------------------
\* FilesMaintenanceManager: the short public calls and the environment
\* ------------------------------------------------------------------------

\* ScheduleJob without its set of the wake event
WakeAfterInsertKept(wake) == wake

\* self._wake_background_event.set()
WakeAfterInsert(wake) == TRUE

\* ScheduleJob( hashes, job_type )
ScheduleJobCall(hashes, job_type) ==
    /\ lock = {}
    /\ job_queue' = AddJobsWrite(job_queue, hashes, job_type)
    /\ wake_background_event' = WakeAfterInsert(wake_background_event)
    /\ UNCHANGED <<media_hashes, able, serious_error_encountered, shutdown,
                   reset_background_event, mutexVars, callVars, runVars, batchVars>>
    /\ UNCHANGED <<storeVars, lockVars, fsVars, integrityVars, overrule_lookup, path_calls, diskVars>>

\* ScheduleJob for the job kinds in play
ScheduleJob ==
    /\ \E hashes \in SUBSET Records \ {{}}, job_type \in JobTypes :
          ScheduleJobCall(hashes, job_type)
    /\ UNCHANGED schedule_call

\* ScheduleJob takes self._lock and writes the jobs
ScheduleJobInsert ==
    /\ lock = {}
    /\ lock' = {"ScheduleJob"}
    /\ \E hashes \in SUBSET Records \ {{}}, job_type \in JobTypes :
          job_queue' = AddJobsWrite(job_queue, hashes, job_type)
    /\ UNCHANGED <<media_hashes, able, flagVars, maintenance_lock, callVars, runVars, batchVars>>
    /\ MaintStoreUnchanged

\* ScheduleJob sets the wake event and releases self._lock
ScheduleJobSet ==
    /\ lock = {"ScheduleJob"}
    /\ lock' = {}
    /\ wake_background_event' = WakeAfterInsert(wake_background_event)
    /\ UNCHANGED <<job_queue, media_hashes, able, serious_error_encountered, shutdown,
                   reset_background_event, maintenance_lock, callVars, runVars, batchVars>>
    /\ MaintStoreUnchanged

\* ScheduleJob for any job kind, with a note of the call and of the pending
\* jobs its insertion found overruled
ScheduleJobOfAnyKind ==
    /\ Cardinality(job_queue) < MaxPending
    /\ \E hashes \in SUBSET Hashes \ {{}}, job_type \in AllJobTypes :
          /\ ScheduleJobCall(hashes, job_type)
          /\ schedule_call' = [hashes |-> hashes, job_type |-> job_type,
                               overruled |-> OverruledPending(job_queue, hashes, job_type)]

\* NotifyNewOptions(): with self._lock, the work rules are made anew from the
\* options, and with them what _AbleToDoBackgroundMaintenance returns
NotifyNewOptions ==
    /\ lock = {}
    /\ able' \in BOOLEAN
    /\ UNCHANGED <<job_queue, media_hashes, flagVars, mutexVars, callVars, runVars, batchVars>>
    /\ MaintStoreUnchanged

CancelJobs ==
    /\ lock = {}
    /\ \E job_type \in JobTypes : job_queue' = CancelJobsWrite(job_queue, job_type)
    /\ reset_background_event' = TRUE
    /\ UNCHANGED <<media_hashes, able, serious_error_encountered, shutdown,
                   wake_background_event, mutexVars, callVars, runVars, batchVars>>
    /\ MaintStoreUnchanged

ClearJobs ==
    /\ lock = {}
    /\ \E hashes \in SUBSET Records \ {{}}, job_type \in JobTypes :
          job_queue' = ClearJobsWrite(job_queue, hashes, job_type)
    /\ reset_background_event' = TRUE
    /\ UNCHANGED <<media_hashes, able, serious_error_encountered, shutdown,
                   wake_background_event, mutexVars, callVars, runVars, batchVars>>
    /\ MaintStoreUnchanged

Shutdown ==
    /\ shutdown' = TRUE
    /\ wake_background_event' = TRUE
    /\ UNCHANGED <<job_queue, media_hashes, able, serious_error_encountered,
                   reset_background_event, mutexVars, callVars, runVars, batchVars>>
    /\ MaintStoreUnchanged

\* what _AbleToDoBackgroundMaintenance returns changes with the idle state
\* of the client and the work rules
AbleChanges ==
    /\ able' = ~able
    /\ UNCHANGED <<job_queue, media_hashes, flagVars, mutexVars, callVars, runVars, batchVars>>
    /\ MaintStoreUnchanged

\* ------------------------------------------------------------------------
\* FilesMaintenanceManager._CheckFileIntegrity
\* ------------------------------------------------------------------------

\* the job kinds that compare the hash of the file's bytes
ChecksData(job_type) ==
    job_type \in {"DATA_REMOVE_RECORD", "DATA_TRY_URL", "DATA_TRY_URL_ELSE_REMOVE_RECORD",
                  "DATA_SILENT_DELETE"}

\* add_it, with an unclassified URL left out
AddItOfKnownClass(url_class) ==
    url_class \in {"URL_TYPE_FILE", "URL_TYPE_POST"}

\* add_it: the URL has no class, or a class of file or post type; a
\* URLClassException skips the URL
AddIt(url_class) ==
    url_class = "None" \/ url_class \in {"URL_TYPE_FILE", "URL_TYPE_POST"}

\* useful_urls
UsefulURLs(urls) == {url \in DOMAIN urls : AddIt(urls[url])}

TryRedownload(job_type, useful_urls) ==
    CASE job_type = "PRESENCE_LOG_ONLY" -> FALSE
      [] job_type \in {"PRESENCE_TRY_URL_ELSE_REMOVE_RECORD", "DATA_TRY_URL_ELSE_REMOVE_RECORD"} ->
            Cardinality(useful_urls) > 0
      [] OTHER -> job_type \in {"PRESENCE_TRY_URL", "DATA_TRY_URL"} /\ Cardinality(useful_urls) > 0

\* delete_record, as if decided from the kind alone
DeleteRecordOfKindOnly(job_type, try_redownload) ==
    job_type \in {"PRESENCE_TRY_URL_ELSE_REMOVE_RECORD", "DATA_TRY_URL_ELSE_REMOVE_RECORD",
                  "PRESENCE_REMOVE_RECORD", "PRESENCE_DELETE_RECORD", "DATA_REMOVE_RECORD"}

DeleteRecord(job_type, try_redownload) ==
    CASE job_type = "PRESENCE_LOG_ONLY" -> FALSE
      [] job_type \in {"PRESENCE_TRY_URL_ELSE_REMOVE_RECORD", "DATA_TRY_URL_ELSE_REMOVE_RECORD"} ->
            ~try_redownload
      [] OTHER -> job_type \in {"PRESENCE_REMOVE_RECORD", "PRESENCE_DELETE_RECORD", "DATA_REMOVE_RECORD"}

DoExport(job_type, file_is_invalid, try_redownload) ==
    file_is_invalid /\ (\/ job_type \in {"DATA_REMOVE_RECORD", "DATA_TRY_URL_ELSE_REMOVE_RECORD",
                                         "DATA_SILENT_DELETE"}
                        \/ (job_type = "DATA_TRY_URL" /\ try_redownload))

\* leave_deletion_record, as if every kind left one
LeaveDeletionRecordAlways(job_type) == TRUE

\* leave_deletion_record
LeaveDeletionRecord(job_type) == job_type = "PRESENCE_DELETE_RECORD"

\* the content updates of a record delete, in the order they are written
DeleteRecordUpdates(job_type, hash) ==
    IF LeaveDeletionRecord(job_type)
    THEN <<<<"CONTENT_UPDATE_DELETE", hash>>>>
    ELSE <<<<"CONTENT_UPDATE_DELETE", hash>>, <<"CONTENT_UPDATE_CLEAR_DELETE_RECORD", hash>>>>

\* the orders 'for url in useful_urls' may take: urls is a set
Orders(S) ==
    {order \in [1..Cardinality(S) -> S] : \A i, j \in 1..Cardinality(S) : order[i] = order[j] => i = j}

\* _CheckFileIntegrity from file_was_bad on: the log, the exports, the
\* decisions, the redownloads, the content updates and the messages
CheckedFile(job_type, file_is_missing, file_is_invalid) ==
    LET hash == media_result.hash
        urls == media_result.urls
        file_was_bad == file_is_missing \/ file_is_invalid
        useful_urls == UsefulURLs(urls)
        try_redownload == TryRedownload(job_type, useful_urls)
        delete_record == DeleteRecord(job_type, try_redownload)
        do_export == DoExport(job_type, file_is_invalid, try_redownload)
    IN IF ~file_was_bad
       THEN /\ integrity_call' = [job_type |-> job_type, file_was_bad |-> FALSE,
                                  try_redownload |-> FALSE, delete_record |-> FALSE]
            /\ UNCHANGED <<record_file, missing_hashes_log, error_dir, redownloader,
                           content_updates, pubbed_messages, shown_messages>>
       ELSE /\ integrity_call' = [job_type |-> job_type, file_was_bad |-> TRUE,
                                  try_redownload |-> try_redownload,
                                  delete_record |-> delete_record]
            /\ missing_hashes_log' = Append(missing_hashes_log, hash)
            /\ \E urls_written \in BOOLEAN :
                  error_dir' = error_dir
                                 \cup (IF DOMAIN urls # {} /\ urls_written
                                       THEN {<<"urls.txt", hash>>} ELSE {})
                                 \cup (IF do_export THEN {<<"file", hash>>} ELSE {})
            /\ record_file' = IF do_export THEN "missing" ELSE record_file
            /\ \E order \in Orders(useful_urls) :
                  redownloader' = IF try_redownload THEN redownloader \o order
                                  ELSE redownloader
            /\ content_updates' = IF delete_record
                                  THEN content_updates \o DeleteRecordUpdates(job_type, hash)
                                  ELSE content_updates
            /\ pubbed_messages' = pubbed_messages
                                    \cup (IF do_export THEN {"invalid_file_export"} ELSE {})
                                    \cup (IF delete_record THEN {"bad_file_record_delete"} ELSE {})
            /\ shown_messages' =
                  shown_messages
                    \o (IF do_export /\ "invalid_file_export" \notin pubbed_messages
                        THEN <<"invalid_file_export">> ELSE <<>>)
                    \o (IF delete_record /\ "bad_file_record_delete" \notin pubbed_messages
                        THEN <<"bad_file_record_delete">> ELSE <<>>)

\* _CheckFileIntegrity( media_result, job_type ), on a record whose file is
\* good, invalid or missing
CheckFileIntegrity ==
    /\ num_checks < MaxChecks
    /\ num_checks' = num_checks + 1
    /\ \E job_type \in IntegrityJobTypes :
          LET file_is_missing == record_file = "missing"
              file_is_invalid == ~file_is_missing /\ ChecksData(job_type) /\ record_file = "invalid"
          IN CheckedFile(job_type, file_is_missing, file_is_invalid)
    /\ UNCHANGED <<media_result, overrule_lookup, schedule_call, path_calls, diskVars, storeVars,
                   lockVars, fsVars, maintVars>>

\* ------------------------------------------------------------------------
\* The expected paths
\* ------------------------------------------------------------------------

\* hash.hex(): the two characters the prefix is made of, then the rest
HexEncoded(hash) == <<HashHexPrefix(hash), (hash - 1) \div NumHex>>

\* os.path.join( location, prefix, name )
PathJoin(location, prefix, name) == <<location, prefix, name>>

\* _GenerateExpectedThumbnailPath with the prefix of the file
GenerateExpectedThumbnailPathOfFilePrefix(map, hash) ==
    LET hash_encoded == HexEncoded(hash)
        prefix == FilePrefix(hash_encoded[1])
        location == map[prefix]
    IN PathJoin(location, prefix, <<hash_encoded, ".thumbnail">>)

\* _GenerateExpectedFilePath
GenerateExpectedFilePath(map, hash, mime) ==
    LET hash_encoded == HexEncoded(hash)
        prefix == FilePrefix(hash_encoded[1])
        location == map[prefix]
    IN PathJoin(location, prefix, <<hash_encoded, mime_ext_lookup[mime]>>)

\* _GenerateExpectedThumbnailPath
GenerateExpectedThumbnailPath(map, hash) ==
    LET hash_encoded == HexEncoded(hash)
        prefix == ThumbnailPrefix(hash_encoded[1])
        location == map[prefix]
    IN PathJoin(location, prefix, <<hash_encoded, ".thumbnail">>)

\* a call of _GenerateExpectedFilePath: it returns the path, or
\* _WaitOnWakeup raises ShutdownException (no path)
GenerateExpectedFilePathCall ==
    /\ Len(path_calls) < MaxPathCalls
    /\ \E hash \in PathHashes : \E mime \in Mimes : \E returns \in BOOLEAN :
          path_calls' = Append(path_calls,
                               [fn |-> "_GenerateExpectedFilePath", hash |-> hash, mime |-> mime,
                                map |-> prefixes_to_locations,
                                path |-> IF returns
                                         THEN GenerateExpectedFilePath(prefixes_to_locations, hash, mime)
                                         ELSE NoTuple])
    /\ UNCHANGED <<integrityVars, overrule_lookup, schedule_call, diskVars, storeVars, lockVars,
                   fsVars, maintVars>>

\* a call of _GenerateExpectedThumbnailPath, likewise
GenerateExpectedThumbnailPathCall ==
    /\ Len(path_calls) < MaxPathCalls
    /\ \E hash \in PathHashes : \E returns \in BOOLEAN :
          path_calls' = Append(path_calls,
                               [fn |-> "_GenerateExpectedThumbnailPath", hash |-> hash, mime |-> None,
                                map |-> prefixes_to_locations,
                                path |-> IF returns
                                         THEN GenerateExpectedThumbnailPath(prefixes_to_locations, hash)
                                         ELSE NoTuple])
    /\ UNCHANGED <<integrityVars, overrule_lookup, schedule_call, diskVars, storeVars, lockVars,
                   fsVars, maintVars>>

\* ------------------------------------------------------------------------
\* The files on disk by path: lookups, extension changes, thumbnail writes
\* ------------------------------------------------------------------------

\* os.path.exists( path ) of a path in a prefix directory
PathExists(fs, ds, path) == path \in fs /\ <<path[1], path[2]>> \in ds

\* os.path.exists( subdir ) of the directory of the file prefix of hash
FileSubdirExists(ds, map, hash) ==
    LET prefix == FilePrefix(HexEncoded(hash)[1])
    IN <<map[prefix], prefix>> \in ds

\* os.path.exists( thumb_dir ) of the directory of the thumbnail prefix of hash
ThumbDirExists(ds, map, hash) ==
    LET prefix == ThumbnailPrefix(HexEncoded(hash)[1])
    IN <<map[prefix], prefix>> \in ds

\* the allowed mimes under which the file of hash exists, by their place in
\* HC.ALLOWED_MIMES
FoundMimes(fs, ds, map, hash) ==
    {i \in DOMAIN ALLOWED_MIMES :
        PathExists(fs, ds, GenerateExpectedFilePath(map, hash, ALLOWED_MIMES[i]))}

\* what a lookup gives: an exception, or a path and a mime
Raises(exception) == [raised |-> exception, path |-> NoTuple, mime |-> None]

Finds(path, mime) == [raised |-> None, path |-> path, mime |-> mime]

\* _LookForFilePath that never looks at the directory
LookForFilePathWithoutDirTest(fs, ds, map, hash) ==
    LET found == FoundMimes(fs, ds, map, hash)
        first == CHOOSE i \in found : \A j \in found : i <= j
    IN IF found # {}
       THEN Finds(GenerateExpectedFilePath(map, hash, ALLOWED_MIMES[first]), ALLOWED_MIMES[first])
       ELSE Raises("FileMissingException")

\* _LookForFilePath: the first allowed mime whose expected path exists; else
\* DirectoryMissingException without the prefix directory, FileMissingException with it
LookForFilePathOnDisk(fs, ds, map, hash) ==
    LET found == FoundMimes(fs, ds, map, hash)
        first == CHOOSE i \in found : \A j \in found : i <= j
    IN IF found # {}
       THEN Finds(GenerateExpectedFilePath(map, hash, ALLOWED_MIMES[first]), ALLOWED_MIMES[first])
       ELSE IF ~FileSubdirExists(ds, map, hash)
       THEN Raises("DirectoryMissingException")
       ELSE Raises("FileMissingException")

\* except handler: the raised exception is of the class the handler names;
\* FileMissingException and DirectoryMissingException are two kinds, neither
\* a case of the other
Catches(handler, raised) == handler = raised

\* _ChangeFileExt: the files it may leave and what it returns. MergeFile
\* renames; MirrorFile copies and leaves the old path in place, or fails and
\* returns False, which _ChangeFileExt does not look at.
ChangeFileExtOnDisk(fs, ds, map, hash, old_mime, mime) ==
    LET old_path == GenerateExpectedFilePath(map, hash, old_mime)
        new_path == GenerateExpectedFilePath(map, hash, mime)
        merged == [files |-> (fs \ {old_path}) \cup {new_path}, needed_to_copy_file |-> "False"]
        mirrored == [files |-> fs \cup {new_path}, needed_to_copy_file |-> "True"]
        not_mirrored == [files |-> fs, needed_to_copy_file |-> "True"]
    IN IF old_path = new_path
       THEN {[files |-> fs, needed_to_copy_file |-> None]}
       ELSE IF PathExists(fs, ds, old_path)
       THEN {merged, mirrored, not_mirrored}
       ELSE {not_mirrored}

\* how a GetFilePath call ends
GetFilePathResult(raised, path, fs, old_mime, needed) ==
    [raised |-> raised, path |-> path, files |-> fs, old_mime |-> old_mime,
     needed_to_copy_file |-> needed]

\* GetFilePath: the ways it may end
GetFilePathOnDisk(fs, ds, map, hash, mime, check_file_exists) ==
    IF mime = None
    THEN LET look == LookForFilePathOnDisk(fs, ds, map, hash)
         IN {GetFilePathResult(look.raised, look.path, fs, None, None)}
    ELSE LET path == GenerateExpectedFilePath(map, hash, mime)
             look == LookForFilePathOnDisk(fs, ds, map, hash)
         IN IF check_file_exists /\ ~PathExists(fs, ds, path)
            THEN IF Catches("FileMissingException", look.raised)
                 THEN {GetFilePathResult("FileMissingException", NoTuple, fs, None, None)}
                 ELSE IF look.raised # None
                 THEN {GetFilePathResult(look.raised, NoTuple, fs, None, None)}
                 ELSE {GetFilePathResult(None, path, c.files, look.mime, c.needed_to_copy_file) :
                          c \in ChangeFileExtOnDisk(fs, ds, map, hash, look.mime, mime)}
            ELSE {GetFilePathResult(None, path, fs, None, None)}

\* the rest of maintVars when a call writes to the job queue only
QueueOnly == UNCHANGED <<media_hashes, able, flagVars, mutexVars, callVars, runVars, batchVars>>

DiskCallUnchanged ==
    UNCHANGED <<storeVars, lockVars, fsVars, integrityVars, overrule_lookup, schedule_call,
                path_calls, d_pending, d_acks, d_loop, started_shutdown>>

\* GetFilePath( hash, mime, check_file_exists )
GetFilePathCall ==
    /\ \E hash \in DiskHashes : \E mime \in Range(ALLOWED_MIMES) \cup {None} :
       \E check_file_exists \in BOOLEAN :
       \E o \in GetFilePathOnDisk(d_files, dirs, prefixes_to_locations, hash, mime,
                                  check_file_exists) :
          /\ d_files' = o.files
          /\ d_call' = [fn |-> "GetFilePath", hash |-> hash, mime |-> mime,
                        check_file_exists |-> check_file_exists, files |-> d_files,
                        dirs |-> dirs,
                        raised |-> o.raised, path |-> o.path, old_mime |-> o.old_mime,
                        needed_to_copy_file |-> o.needed_to_copy_file]
    /\ UNCHANGED maintVars
    /\ DiskCallUnchanged

\* the message _RunJob shows when the work on a record raises: the serious
\* I/O error message, the unexpected problem message for any other exception
RunJobMessage(raised) ==
    IF raised = "IOError" THEN "serious_io_error" ELSE "unexpected_problem"

\* _CheckFileIntegrity( media_result, job_type ) on the files on disk:
\* GetFilePath, of which only FileMissingException is caught; GetHashFromPath
\* for the kinds that read the file, which raises when the path is not there;
\* MergeFile of an exported file; and the handlers of _RunJob around the call
CheckFileIntegrityOnDisk ==
    /\ num_checks < MaxChecks
    /\ num_checks' = num_checks + 1
    /\ \E job_type \in IntegrityJobTypes : \E mime \in Range(ALLOWED_MIMES) :
       \E o \in GetFilePathOnDisk(d_files, dirs, prefixes_to_locations, media_result.hash, mime,
                                  TRUE) :
       \E actual_hash_differs \in BOOLEAN :
          LET file_is_missing == Catches("FileMissingException", o.raised)
              not_read == /\ o.raised = None
                          /\ ChecksData(job_type)
                          /\ ~PathExists(o.files, dirs, o.path)
              raised == IF o.raised # None /\ ~file_is_missing THEN o.raised
                        ELSE IF not_read THEN "IOError"
                        ELSE None
              file_is_invalid == ~file_is_missing /\ ChecksData(job_type) /\ actual_hash_differs
              do_export == DoExport(job_type, file_is_invalid,
                                    TryRedownload(job_type, UsefulURLs(media_result.urls)))
          IN /\ d_call' = [fn |-> "_CheckFileIntegrity", job_type |-> job_type,
                           hash |-> media_result.hash, mime |-> mime, files |-> d_files,
                           dirs |-> dirs, raised |-> raised,
                           file_is_missing |-> file_is_missing]
             /\ IF raised # None
                THEN /\ d_files' = o.files
                     /\ UNCHANGED <<record_file, missing_hashes_log, error_dir, redownloader,
                                    content_updates, pubbed_messages, integrity_call>>
                     /\ shown_messages' = Append(shown_messages, RunJobMessage(raised))
                ELSE /\ d_files' = IF do_export THEN o.files \ {o.path} ELSE o.files
                     /\ CheckedFile(job_type, file_is_missing, file_is_invalid)
    /\ UNCHANGED <<media_result, overrule_lookup, schedule_call, path_calls, d_pending, d_acks,
                   d_loop, started_shutdown, storeVars, lockVars, fsVars, maintVars>>

\* _RegenFileMetadata: GetFilePath, the mime GetFileInfo finds, ChangeFileExt
\* when it is not the mime on record, and the DELETE_NEIGHBOUR_DUPES job
\* when ChangeFileExt says it copied
RegenFileMetadata ==
    /\ \E hash \in DiskHashes : \E original_mime \in Range(ALLOWED_MIMES) :
       \E mime \in Range(ALLOWED_MIMES) :
       \E o \in GetFilePathOnDisk(d_files, dirs, prefixes_to_locations, hash, original_mime, TRUE) :
          IF o.raised # None
          THEN /\ d_files' = o.files
               /\ d_call' = [fn |-> "_RegenFileMetadata", hash |-> hash, mime |-> mime,
                             original_mime |-> original_mime, files |-> d_files,
                             dirs |-> dirs,
                             raised |-> o.raised, old_mime |-> None,
                             needed_to_copy_file |-> None, needed_to_dupe_the_file |-> None]
               /\ UNCHANGED job_queue
          ELSE \E c \in IF mime # original_mime
                        THEN ChangeFileExtOnDisk(o.files, dirs, prefixes_to_locations, hash,
                                                 original_mime, mime)
                        ELSE {[files |-> o.files, needed_to_copy_file |-> None]} :
                  /\ d_files' = c.files
                  /\ d_call' = [fn |-> "_RegenFileMetadata", hash |-> hash, mime |-> mime,
                                original_mime |-> original_mime, files |-> d_files,
                             dirs |-> dirs,
                                raised |-> None, old_mime |-> o.old_mime,
                                needed_to_copy_file |-> o.needed_to_copy_file,
                                needed_to_dupe_the_file |-> c.needed_to_copy_file]
                  /\ job_queue' = IF c.needed_to_copy_file = "True"
                                  THEN AddJobsWrite(job_queue, {hash}, "DELETE_NEIGHBOUR_DUPES")
                                  ELSE job_queue
    /\ QueueOnly
    /\ DiskCallUnchanged

\* DeleteNeighbourDupes that does not compare the two paths
DeleteNeighbourDupesWithoutPathTest(fs, ds, map, hash, true_mime, n) ==
    LET correct_path == GenerateExpectedFilePath(map, hash, true_mime)
        incorrect == {GenerateExpectedFilePath(map, hash, ALLOWED_MIMES[i]) :
                         i \in {j \in 1..n : ALLOWED_MIMES[j] # true_mime}}
    IN IF ~PathExists(fs, ds, correct_path)
       THEN fs
       ELSE fs \ {incorrect_path \in incorrect : PathExists(fs, ds, incorrect_path)}

\* DeleteNeighbourDupes: the files on disk after the first n allowed mimes
DeleteNeighbourDupesOnDisk(fs, ds, map, hash, true_mime, n) ==
    LET correct_path == GenerateExpectedFilePath(map, hash, true_mime)
        incorrect == {GenerateExpectedFilePath(map, hash, ALLOWED_MIMES[i]) :
                         i \in {j \in 1..n : ALLOWED_MIMES[j] # true_mime}} \ {correct_path}
    IN IF ~PathExists(fs, ds, correct_path)
       THEN fs
       ELSE fs \ {incorrect_path \in incorrect : PathExists(fs, ds, incorrect_path)}

\* DeleteNeighbourDupes( hash, true_mime ): it goes through every allowed
\* mime, or _WaitOnWakeup raises ShutdownException before one of them
DeleteNeighbourDupesCall ==
    /\ \E hash \in DiskHashes : \E true_mime \in Range(ALLOWED_MIMES) :
       \E n \in 0..Len(ALLOWED_MIMES) :
          /\ d_files' = DeleteNeighbourDupesOnDisk(d_files, dirs, prefixes_to_locations, hash,
                                                   true_mime, n)
          /\ d_call' = [fn |-> "DeleteNeighbourDupes", hash |-> hash, mime |-> true_mime,
                        files |-> d_files, dirs |-> dirs,
                        raised |-> IF n < Len(ALLOWED_MIMES) THEN "ShutdownException" ELSE None]
    /\ UNCHANGED maintVars
    /\ DiskCallUnchanged

\* _AddThumbnailFromBytes: the write works, or it fails and the handler
\* tells a missing directory from a file that cannot be written
AddThumbnailFromBytesOnDisk(fs, ds, map, hash) ==
    LET dest_path == GenerateExpectedThumbnailPath(map, hash)
        failed == [files |-> fs,
                   raised |-> IF ~ThumbDirExists(ds, map, hash)
                              THEN "DirectoryMissingException"
                              ELSE "FileMissingException"]
    IN IF ThumbDirExists(ds, map, hash)
       THEN {[files |-> fs \cup {dest_path}, raised |-> None], failed}
       ELSE {failed}

\* AddThumbnailFromBytes( hash, thumbnail_bytes )
AddThumbnailFromBytesCall ==
    /\ \E hash \in DiskHashes :
       \E o \in AddThumbnailFromBytesOnDisk(d_files, dirs, prefixes_to_locations, hash) :
          /\ d_files' = o.files
          /\ d_call' = [fn |-> "AddThumbnailFromBytes", hash |-> hash, files |-> d_files,
                        dirs |-> dirs, raised |-> o.raised]
    /\ UNCHANGED maintVars
    /\ DiskCallUnchanged

\* ------------------------------------------------------------------------
\* Deferred physical deletes
\* ------------------------------------------------------------------------

\* a hash that may be None: the set of at most one hash
NoHash == {}

\* the pairs ( file_hash, thumbnail_hash ) the database can hand out
DeferredPairs ==
    {<<f, t>> : f \in {NoHash} \cup {{h} : h \in DiskHashes},
                t \in {NoHash} \cup {{h} : h \in DiskHashes}} \ {<<NoHash, NoHash>>}

\* file_hash.hex() in a message: None has no attribute hex
HexOfRaises(file_hash) == file_hash = NoHash

\* the file half of a turn (1242-1264): the files left on disk and the
\* exception that leaves the try, for every mime the media result may give
DeferredFileDelete(fs, ds, map, file_hash) ==
    IF file_hash = NoHash
    THEN {[files |-> fs, raised |-> None]}
    ELSE {LET hash == CHOOSE h \in file_hash : TRUE
              path == GenerateExpectedFilePath(map, hash, expected_mime)
              look == LookForFilePathOnDisk(fs, ds, map, hash)
          IN IF PathExists(fs, ds, path)
             THEN [files |-> fs \ {path}, raised |-> None]
             ELSE IF look.raised = None
             THEN [files |-> fs \ {look.path}, raised |-> None]
             ELSE IF Catches("FileMissingException", look.raised)
             THEN [files |-> fs, raised |-> None]
             ELSE [files |-> fs, raised |-> look.raised]
          : expected_mime \in Range(ALLOWED_MIMES)}

\* the thumbnail half of a turn (1267-1281)
DeferredThumbnailDelete(fs, ds, map, file_hash, thumbnail_hash) ==
    IF thumbnail_hash = NoHash
    THEN [files |-> fs, raised |-> None]
    ELSE LET path == GenerateExpectedThumbnailPath(map, CHOOSE h \in thumbnail_hash : TRUE)
         IN IF PathExists(fs, ds, path)
            THEN [files |-> fs \ {path}, raised |-> None]
            ELSE IF HexOfRaises(file_hash)
            THEN [files |-> fs, raised |-> "AttributeError"]
            ELSE [files |-> fs, raised |-> None]

\* one turn of the loop for a pair, up to the write that clears it
DeferredTurn(fs, ds, map, pair) ==
    {IF f.raised # None
     THEN f
     ELSE DeferredThumbnailDelete(f.files, ds, map, pair[1], pair[2])
     : f \in DeferredFileDelete(fs, ds, map, pair[1])}

DeferredUnchanged ==
    UNCHANGED <<storeVars, lockVars, fsVars, maintVars, integrityVars, overrule_lookup,
                schedule_call, path_calls>>

DeferredCall(ended, raised) ==
    [fn |-> "DoDeferredPhysicalDeletes", files |-> d_files, dirs |-> dirs,
     ended |-> ended, raised |-> raised]

\* DoDeferredPhysicalDeletes is called
DoDeferredPhysicalDeletesBegin ==
    /\ ~d_loop
    /\ d_loop' = TRUE
    /\ d_call' = DeferredCall("running", None)
    /\ UNCHANGED <<d_files, d_pending, d_acks, started_shutdown>>
    /\ DeferredUnchanged

\* while not HG.started_shutdown: one turn under the write lock. The read of
\* 'deferred_physical_delete' gives a pending pair, or ( None, None )
DoDeferredPhysicalDeletesTurn ==
    /\ d_loop
    /\ ~started_shutdown
    /\ IF d_pending = {}
       THEN /\ d_loop' = FALSE
            /\ d_call' = DeferredCall("break", None)
            /\ UNCHANGED <<d_files, d_pending, d_acks>>
       ELSE \E pair \in d_pending :
            \E o \in DeferredTurn(d_files, dirs, prefixes_to_locations, pair) :
               /\ d_files' = o.files
               /\ IF o.raised # None
                  THEN /\ d_loop' = FALSE
                       /\ d_call' = DeferredCall("raised", o.raised)
                       /\ UNCHANGED <<d_pending, d_acks>>
                  ELSE /\ d_pending' = d_pending \ {pair}
                       /\ d_acks' = Append(d_acks, pair)
                       /\ d_call' = DeferredCall("running", None)
                       /\ UNCHANGED d_loop
    /\ UNCHANGED started_shutdown
    /\ DeferredUnchanged

\* the loop test finds HG.started_shutdown set
DoDeferredPhysicalDeletesShutdown ==
    /\ d_loop
    /\ started_shutdown
    /\ d_loop' = FALSE
    /\ d_call' = DeferredCall("shutdown", None)
    /\ UNCHANGED <<d_files, d_pending, d_acks, started_shutdown>>
    /\ DeferredUnchanged

\* the client starts to shut down
StartShutdown ==
    /\ ~started_shutdown
    /\ started_shutdown' = TRUE
    /\ UNCHANGED <<d_files, d_call, d_pending, d_acks, d_loop>>
    /\ DeferredUnchanged

\* ------------------------------------------------------------------------
\* Clearing orphans
\* ------------------------------------------------------------------------

\* the first 64 characters of a filename that is not a hash in hex
NotHexName == <<0, 0>>

\* bytes.fromhex( should_be_a_hex_hash ) raises ValueError
BytesFromHexRaises(should_be_a_hex_hash) == should_be_a_hex_hash[1] \notin HexPrefixes

\* what the try block (1039-1049) can come to for a path: the ValueError of
\* bytes.fromhex, or the answer of the read of 'is_an_orphan', or its failure
OrphanAnswers(path) ==
    IF BytesFromHexRaises(path[3][1])
    THEN {"ValueError"}
    ELSE {"True", "False", "read failed"}

\* is_an_orphan only when the store said so
IsAnOrphanByAnswerOnly(answer) == answer = "True"

\* is_an_orphan after the try and its bare except (1039-1053)
IsAnOrphan(answer) == answer # "False"

\* _IterateAllFilePaths / _IterateAllThumbnailPaths: the files in the
\* directories of the prefixes of one letter
IterateAllPaths(fs, map, letter) ==
    {path \in fs : path[2][1] = letter /\ path[1] = map[path[2]]}

\* the loop that follows the review of the thumbnails (1118-1170)
PhaseAfterReview(move_location, orphan_paths, orphan_thumbnails) ==
    IF move_location = None /\ orphan_paths # {}
    THEN "delete files"
    ELSE IF orphan_thumbnails # {} THEN "delete thumbnails" ELSE "done"

ClearOrphansRunning ==
    /\ d_call # NoTuple
    /\ d_call.fn = "ClearOrphans"
    /\ d_call.phase \notin {"done", "cancelled"}

OrphansUnchanged ==
    UNCHANGED <<storeVars, lockVars, fsVars, maintVars, integrityVars, overrule_lookup,
                schedule_call, path_calls, d_pending, d_acks, d_loop, started_shutdown>>

\* ClearOrphans( move_location ) takes the write lock and starts to review
\* the files
ClearOrphansBegin ==
    /\ ~ClearOrphansRunning
    /\ \E move_location \in {None, "move location"} :
          d_call' = [fn |-> "ClearOrphans", move_location |-> move_location,
                     files |-> d_files, dirs |-> dirs, phase |-> "review files",
                     todo |-> IterateAllPaths(d_files, prefixes_to_locations, "f"),
                     orphan_paths |-> {}, orphan_thumbnails |-> {},
                     answers |-> {}, raised |-> None]
    /\ UNCHANGED d_files
    /\ OrphansUnchanged

\* one turn of the loop over the files (1023-1073) or over the thumbnails
\* (1077-1114); a file that is an orphan is moved at once when there is a
\* move location
ClearOrphansReview ==
    /\ ClearOrphansRunning
    /\ d_call.phase \in {"review files", "review thumbnails"}
    /\ IF d_call.todo = {}
       THEN /\ d_call' =
                 IF d_call.phase = "review files"
                 THEN [d_call EXCEPT !.phase = "review thumbnails",
                                     !.todo = IterateAllPaths(d_files, prefixes_to_locations, "t")]
                 ELSE LET phase == PhaseAfterReview(d_call.move_location, d_call.orphan_paths,
                                                    d_call.orphan_thumbnails)
                      IN [d_call EXCEPT !.phase = phase,
                                        !.todo = IF phase = "delete files"
                                                 THEN d_call.orphan_paths
                                                 ELSE d_call.orphan_thumbnails]
            /\ UNCHANGED d_files
       ELSE \E path \in d_call.todo : \E answer \in OrphanAnswers(path) :
               LET is_an_orphan == IsAnOrphan(answer)
                   of_files == d_call.phase = "review files"
               IN /\ d_call' = [d_call EXCEPT
                                   !.todo = @ \ {path},
                                   !.answers = @ \cup {<<path, answer>>},
                                   !.orphan_paths =
                                       IF of_files /\ is_an_orphan THEN @ \cup {path} ELSE @,
                                   !.orphan_thumbnails =
                                       IF ~of_files /\ is_an_orphan THEN @ \cup {path} ELSE @]
                  /\ d_files' = IF of_files /\ is_an_orphan /\ d_call.move_location # None
                                THEN d_files \ {path}
                                ELSE d_files
    /\ OrphansUnchanged

\* one turn of the loop that deletes the orphan files (1126-1142) or the
\* orphan thumbnails (1153-1169)
ClearOrphansDelete ==
    /\ ClearOrphansRunning
    /\ d_call.phase \in {"delete files", "delete thumbnails"}
    /\ IF d_call.todo = {}
       THEN /\ d_call' =
                 IF d_call.phase = "delete files" /\ d_call.orphan_thumbnails # {}
                 THEN [d_call EXCEPT !.phase = "delete thumbnails",
                                     !.todo = d_call.orphan_thumbnails]
                 ELSE [d_call EXCEPT !.phase = "done"]
            /\ UNCHANGED d_files
       ELSE \E path \in d_call.todo :
               /\ d_call' = [d_call EXCEPT !.todo = @ \ {path}]
               /\ d_files' = d_files \ {path}
    /\ OrphansUnchanged

\* job_key.WaitIfNeeded() at the head of a turn says should_quit: return
ClearOrphansCancel ==
    /\ ClearOrphansRunning
    /\ d_call.todo # {}
    /\ d_call' = [d_call EXCEPT !.phase = "cancelled"]
    /\ UNCHANGED d_files
    /\ OrphansUnchanged

\* ------------------------------------------------------------------------
\* Rebalancing from every map and configuration
\* ------------------------------------------------------------------------

\* the ordered dict that gives the locations of S the weights w, in LocationOrder
ConfigOf(S, w) ==
    LET s == SelectSeq(LocationOrder, LAMBDA l : l \in S)
    IN [i \in 1..Len(s) |-> <<s[i], w[s[i]]>>]

\* The configurations: every non-empty set of locations with every weight and
\* a positive total (the division by total_weight is defined). The maps below
\* range over all assignments, so listing the entries in LocationOrder loses
\* no order of the dict up to renaming the locations.
IdealConfigs ==
    {c \in UNION {{ConfigOf(S, w) : w \in [S -> Weights]} : S \in SUBSET Locations} :
        SumWeights(c) > 0}

\* the state the constructor leaves when every mapped directory is in place
\* and the directories strays lie about
InitStoreWith(map, ideal, override, strays) ==
    /\ prefixes_to_locations = map
    /\ db_client_files_locations = {<<p, map[p]>> : p \in Prefixes}
    /\ dirs = {<<map[p], p>> : p \in Prefixes} \cup strays
    /\ ideal_locations = ideal
    /\ thumbnail_override = override
    /\ bad_error_occurred = FALSE
    /\ missing_locations = {}
    /\ repair_rows = {}
    /\ reb_pc = "idle"
    /\ rebalance_tuple = NoTuple
    /\ recover_tuple = NoTuple
    /\ reb_cancelled = FALSE
    /\ num_file_moves = 0
    /\ num_thumb_moves = 0
    /\ env_ops = 0
    /\ rw_readers = {}
    /\ rw_writer = {}
    /\ fs_pc = [t \in Threads |-> "idle"]
    /\ fs_arg = [t \in Threads |-> NoTuple]

\* the state the constructor leaves when every mapped directory is in place
InitStoreFrom(map, ideal, override) == InitStoreWith(map, ideal, override, {})

\* no file is stored yet
InitNoFiles ==
    /\ files = {}
    /\ thumbnails = [h \in Hashes |-> "missing"]
    /\ was_regenerated = <<>>
    /\ disk_free_space = [l \in Locations |-> MaxFreeSpace]
    /\ locations_to_free_space = [l \in {} |-> 0]
    /\ paused = FALSE

\* the media results a check may be given: every set of URLs, of every class
MediaResultsToCheck ==
    {[hash |-> h, urls |-> u] :
        h \in Hashes, u \in UNION {[S -> URLClasses] : S \in SUBSET URLs}}

\* nothing has been checked yet; the record under check is mr, its file is
\* in the state file
InitIntegrityFrom(mr, file) ==
    /\ media_result = mr
    /\ record_file = file
    /\ missing_hashes_log = <<>>
    /\ error_dir = {}
    /\ redownloader = <<>>
    /\ content_updates = <<>>
    /\ pubbed_messages = {}
    /\ shown_messages = <<>>
    /\ integrity_call = NoTuple
    /\ num_checks = 0

\* the files on disk and the pairs that await deletion; no call has been made
InitDiskFrom(paths, pairs) ==
    /\ d_files = paths
    /\ d_call = NoTuple
    /\ d_pending = pairs
    /\ d_acks = <<>>
    /\ d_loop = FALSE
    /\ started_shutdown = FALSE

\* no pair of kinds has been looked up, no job scheduled
InitNoLookup ==
    /\ overrule_lookup = NoTuple
    /\ schedule_call = NoTuple
    /\ path_calls = <<>>
    /\ InitDiskFrom({}, {})

InitNoChecks ==
    /\ InitIntegrityFrom([hash |-> 1, urls |-> <<>>], "good")
    /\ InitNoLookup

\* FilesMaintenanceManager.__init__, with the jobs q pending and media
\* records for the hashes mh
InitMaintFrom(q, mh) ==
    /\ job_queue = q
    /\ media_hashes = mh
    /\ able \in BOOLEAN
    /\ serious_error_encountered = FALSE
    /\ shutdown = FALSE
    /\ reset_background_event = FALSE
    /\ wake_background_event = FALSE
    /\ maintenance_lock = {}
    /\ lock = {}
    /\ m_pc = [th \in MThreads |-> "idle"]
    /\ m_job = [th \in MThreads |-> <<>>]
    /\ m_type = [th \in MThreads |-> None]
    /\ m_idx = [th \in MThreads |-> 0]
    /\ m_run = [th \in MThreads |-> <<>>]
    /\ m_cleared = [th \in MThreads |-> {}]
    /\ m_reported = [th \in MThreads |-> {}]
    /\ m_log = [th \in MThreads |-> <<>>]
    /\ m_cancelled = [th \in MThreads |-> FALSE]
    /\ m_after_error = [th \in MThreads |-> FALSE]
    /\ m_batch_ran = [th \in MThreads |-> FALSE]
    /\ m_intruded = [th \in MThreads |-> FALSE]

\* no maintenance is going on
InitNoMaintenance ==
    /\ InitMaintFrom({}, Records)
    /\ able = FALSE

InitRebalance ==
    \E map \in [Prefixes -> Locations] : \E ideal \in IdealConfigs :
        \E override \in Locations \cup {None} :
            InitStoreFrom(map, ideal, override) /\ InitNoFiles /\ InitNoChecks /\ InitNoMaintenance

NextRebalance ==
    \/ RebalanceBegin
    \/ RebalanceMove
    \/ RebalanceToRecover
    \/ RebalanceEnd

SpecRebalance == InitRebalance /\ [][NextRebalance]_vars

\* ------------------------------------------------------------------------
\* The store over a session: rebalance passes, cancellation, and an operator
\* who moves, removes or copies prefix directories
\* ------------------------------------------------------------------------

\* maps that keep each thumbnail prefix with its file prefix
PairedMaps ==
    {[p \in Prefixes |-> m[p[2]]] : m \in [HexPrefixes -> Locations]}

\* configurations of equal weights that leave the last location out
EqualConfigs ==
    {ConfigOf(S, [l \in S |-> 1]) :
        S \in (SUBSET (Locations \ {LocationOrder[Len(LocationOrder)]})) \ {{}}}

InitStore ==
    \E map \in PairedMaps : \E ideal \in EqualConfigs :
        \E override \in {None, LocationOrder[Len(LocationOrder)]} :
            InitStoreFrom(map, ideal, override) /\ InitNoFiles /\ InitNoChecks /\ InitNoMaintenance

NextStore ==
    \/ RebalanceBegin
    \/ RebalanceRefused
    \/ RebalanceMove
    \/ RebalanceToRecover
    \/ RebalanceRecover
    \/ RebalanceEnd
    \/ RebalanceReturn
    \/ RebalanceCancel
    \/ ExternalMoveDir
    \/ ExternalRemoveDir
    \/ ExternalCopyDir

SpecStore == InitStore /\ [][NextStore]_vars

\* ------------------------------------------------------------------------
\* Rebalance passes on a disk where an interrupted relocation has left a
\* prefix directory in a second location
\* ------------------------------------------------------------------------

\* stray directories at the start
MaxStrays == 1

StrayDirs(map) == {<<l, p>> : l \in Locations, p \in Prefixes} \ {<<map[p], p>> : p \in Prefixes}

InitRecover ==
    \E map \in PairedMaps : \E ideal \in IdealConfigs :
        \E override \in {None, LocationOrder[Len(LocationOrder)]} :
            \E strays \in SUBSET StrayDirs(map) :
                /\ Cardinality(strays) <= MaxStrays
                /\ InitStoreWith(map, ideal, override, strays)
                /\ InitNoFiles /\ InitNoChecks /\ InitNoMaintenance

NextRecover ==
    \/ RebalanceBegin
    \/ RebalanceMove
    \/ RebalanceToRecover
    \/ RebalanceRecover
    \/ RebalanceEnd
    \/ RebalanceReturn
    \/ RebalanceCancel

SpecRecover == InitRecover /\ [][NextRecover]_vars

\* ------------------------------------------------------------------------
\* Rebalance passes whose job key is cancelled at any point of a turn: the
\* test of the job key and the rest of the turn are steps of their own
\* ------------------------------------------------------------------------

InitCancel ==
    \E map \in PairedMaps : \E ideal \in EqualConfigs :
        \E override \in {None, LocationOrder[Len(LocationOrder)]} :
            \E strays \in SUBSET StrayDirs(map) :
                /\ Cardinality(strays) <= MaxStrays
                /\ InitStoreWith(map, ideal, override, strays)
                /\ InitNoFiles /\ InitNoChecks /\ InitNoMaintenance

\* the steps of the thread that runs Rebalance, once it is called, but for
\* the rest of a turn of the move loop
RebalanceThread ==
    \/ RebalanceMoveHead
    \/ RebalanceToRecover
    \/ RebalanceRecoverHead
    \/ RebalanceRecoverBody
    \/ RebalanceEnd

NextCancel ==
    \/ RebalanceBegin
    \/ RebalanceMoveHead
    \/ RebalanceMoveBody
    \/ RebalanceToRecover
    \/ RebalanceRecoverHead
    \/ RebalanceRecoverBody
    \/ RebalanceEnd
    \/ RebalanceReturn
    \/ RebalanceCancel

\* the relocate call and the _Reinit of the turn in progress return
TurnCompletes == reb_pc = "moving" /\ reb_pc' = "rebalancing"

\* the thread that runs Rebalance keeps running: its calls return
SpecCancel ==
    InitCancel /\ [][NextCancel]_vars /\ WF_vars(RebalanceThread) /\ WF_reb_pc(TurnCompletes)

\* ------------------------------------------------------------------------
\* The constructor on a disk the operator has changed while the client was
\* down
\* ------------------------------------------------------------------------

\* the directories of a disk on which the operator's prefixes are in any set
\* of locations and every other prefix is where the table has it
DisksFor(map) ==
    {{<<map[p], p>> : p \in Prefixes \ OperatorPrefixes} \cup
        UNION {{<<l, p>> : l \in at[p]} : p \in OperatorPrefixes} :
            at \in [OperatorPrefixes -> SUBSET Locations]}

InitBoot ==
    \E map \in PairedMaps : \E ideal \in EqualConfigs :
        \E override \in {None, LocationOrder[Len(LocationOrder)]} :
            \E disk \in DisksFor(map) :
                /\ db_client_files_locations = {<<p, map[p]>> : p \in Prefixes}
                /\ dirs = disk
                /\ prefixes_to_locations = <<>>
                /\ ideal_locations = ideal
                /\ thumbnail_override = override
                /\ bad_error_occurred = FALSE
                /\ missing_locations = {}
                /\ repair_rows = {}
                /\ reb_pc = "constructing"
                /\ rebalance_tuple = NoTuple
                /\ recover_tuple = NoTuple
                /\ reb_cancelled = FALSE
                /\ num_file_moves = 0
                /\ num_thumb_moves = 0
                /\ env_ops = 0
                /\ rw_readers = {}
                /\ rw_writer = {}
                /\ fs_pc = [t \in Threads |-> "idle"]
                /\ fs_arg = [t \in Threads |-> NoTuple]
                /\ InitNoFiles
                /\ InitNoChecks
                /\ InitNoMaintenance

NextBoot == ConstructReinit

SpecBoot == InitBoot /\ [][NextBoot]_vars

\* ------------------------------------------------------------------------
\* Threads calling the file store while a rebalance runs
\* ------------------------------------------------------------------------

\* every shard in the first location, two locations of equal ideal weight
InitLock ==
    /\ InitStoreFrom([p \in Prefixes |-> LocationOrder[1]],
                     <<<<LocationOrder[1], 1>>, <<LocationOrder[2], 1>>>>, None)
    /\ InitNoFiles
    /\ InitNoChecks
    /\ InitNoMaintenance

NextLock ==
    \/ \E t \in Threads : FileStoreCall(t)
    \/ ThumbnailOptionsChange
    \/ RebalanceBegin
    \/ RebalanceMove
    \/ RebalanceToRecover
    \/ RebalanceEnd
    \/ RebalanceReturn

SpecLock == InitLock /\ [][NextLock]_vars

\* ------------------------------------------------------------------------
\* Thumbnail refit jobs next to other thumbnail calls
\* ------------------------------------------------------------------------

NextRefit ==
    \/ \E t \in Threads :
          \/ RegenFileThumbnailRefit(t)
          \/ RegenerateThumbnailIfWrongSizeProbe(t)
          \/ RegenerateThumbnailBegin(t)
          \/ RegenerateThumbnailAcquireRead(t)
          \/ RegenerateThumbnailRead(t)
          \/ RegenerateThumbnailAcquireWrite(t)
          \/ RegenerateThumbnailWrite(t)
          \/ LocklessAddFileBegin(t)
          \/ LocklessAddFileWrite(t)
    \/ ThumbnailOptionsChange

SpecRefit == InitLock /\ [][NextRefit]_vars

\* ------------------------------------------------------------------------
\* AddFile on drives that fill up
\* ------------------------------------------------------------------------

NextAdd ==
    \/ \E t \in Threads : AddFileAcquire(t) \/ AddFileAdd(t) \/ AddFileRelease(t)
    \/ DiskFreeSpaceChanges

SpecAdd == InitLock /\ [][NextAdd]_vars

\* ------------------------------------------------------------------------
\* File integrity checks of a record, of every kind
\* ------------------------------------------------------------------------

InitIntegrity ==
    /\ InitStoreFrom([p \in Prefixes |-> LocationOrder[1]], <<<<LocationOrder[1], 1>>>>, None)
    /\ InitNoFiles
    /\ InitNoMaintenance
    /\ InitNoLookup
    /\ \E mr \in MediaResultsToCheck : \E file \in {"good", "invalid", "missing"} :
          InitIntegrityFrom(mr, file)

NextIntegrity == CheckFileIntegrity

SpecIntegrity == InitIntegrity /\ [][NextIntegrity]_vars

\* ------------------------------------------------------------------------
\* File integrity checks of a record whose file is looked up on disk, while
\* the operator may disconnect a location
\* ------------------------------------------------------------------------

InitIntegrityDisk ==
    /\ InitStoreFrom([p \in Prefixes |-> LocationOrder[1]], <<<<LocationOrder[1], 1>>>>, None)
    /\ InitNoFiles
    /\ InitNoMaintenance
    /\ overrule_lookup = NoTuple
    /\ schedule_call = NoTuple
    /\ path_calls = <<>>
    /\ \E mr \in MediaResultsToCheck :
          /\ InitIntegrityFrom(mr, "good")
          /\ \E paths \in SUBSET {GenerateExpectedFilePath([p \in Prefixes |-> LocationOrder[1]],
                                                            mr.hash, mime) :
                                      mime \in Range(ALLOWED_MIMES)} :
                InitDiskFrom(paths, {})

NextIntegrityDisk ==
    \/ CheckFileIntegrityOnDisk
    \/ ExternalRemoveDir

SpecIntegrityDisk == InitIntegrityDisk /\ [][NextIntegrityDisk]_vars

\* ------------------------------------------------------------------------
\* The overrule table, looked up for every pair of kinds
\* ------------------------------------------------------------------------

\* job_type_b in regen_file_enum_to_overruled_jobs[ job_type_a ], and the
\* kinds through which job_type_a overrules job_type_b in two steps
OverruleLookup ==
    /\ overrule_lookup # NoTuple
    /\ "overrules" \notin DOMAIN overrule_lookup
    /\ LET a == overrule_lookup.job_type_a
           b == overrule_lookup.job_type_b
       IN overrule_lookup' =
             [job_type_a |-> a, job_type_b |-> b,
              overrules |-> b \in OverruledJobs(a),
              through |-> {k \in OverruledJobs(a) : b \in OverruledJobs(k)}]
    /\ UNCHANGED <<integrityVars, schedule_call, path_calls, diskVars, storeVars, lockVars, fsVars,
                   maintVars>>

InitOverrule ==
    /\ InitStoreFrom([p \in Prefixes |-> LocationOrder[1]], <<<<LocationOrder[1], 1>>>>, None)
    /\ InitNoFiles
    /\ InitNoMaintenance
    /\ InitIntegrityFrom([hash |-> 1, urls |-> <<>>], "good")
    /\ schedule_call = NoTuple
    /\ path_calls = <<>>
    /\ InitDiskFrom({}, {})
    /\ \E a \in AllJobTypes : \E b \in AllJobTypes :
          overrule_lookup = [job_type_a |-> a, job_type_b |-> b]

NextOverrule == OverruleLookup

SpecOverrule == InitOverrule /\ [][NextOverrule]_vars

\* ------------------------------------------------------------------------
\* Jobs of every kind scheduled on top of each other
\* ------------------------------------------------------------------------

InitQueue ==
    /\ InitStoreFrom([p \in Prefixes |-> LocationOrder[1]], <<<<LocationOrder[1], 1>>>>, None)
    /\ InitNoFiles
    /\ InitNoChecks
    /\ InitNoMaintenance

NextQueue == ScheduleJobOfAnyKind

SpecQueue == InitQueue /\ [][NextQueue]_vars

\* ------------------------------------------------------------------------
\* Paths made while a rebalance changes the map
\* ------------------------------------------------------------------------

\* every shard in the first location, two locations of equal ideal weight,
\* with or without a thumbnail override
InitPath ==
    /\ \E override \in {None, LocationOrder[Len(LocationOrder)]} :
          InitStoreFrom([p \in Prefixes |-> LocationOrder[1]],
                        <<<<LocationOrder[1], 1>>, <<LocationOrder[2], 1>>>>, override)
    /\ InitNoFiles
    /\ InitNoChecks
    /\ InitNoMaintenance

NextPath ==
    \/ GenerateExpectedFilePathCall
    \/ GenerateExpectedThumbnailPathCall
    \/ RebalanceBegin
    \/ RebalanceMove
    \/ RebalanceToRecover
    \/ RebalanceEnd
    \/ RebalanceReturn

SpecPath == InitPath /\ [][NextPath]_vars

\* ------------------------------------------------------------------------
\* The maintenance manager with its three trigger sources
\* ------------------------------------------------------------------------

\* every set of pending jobs; every hash has a media record, or the last has none
InitMaint ==
    /\ InitStoreFrom([p \in Prefixes |-> LocationOrder[1]], <<<<LocationOrder[1], 1>>>>, None)
    /\ InitNoFiles
    /\ InitNoChecks
    /\ \E q \in SUBSET (Records \X JobTypes), mh \in {Records, Records \ {NumRecords}} :
          InitMaintFrom(q, mh)

BackgroundStep ==
    \/ BGStart
    \/ BGHead
    \/ BGAcquire
    \/ BGWait
    \/ BGShouldReset
    \/ BGLock
    \/ BGIdleWait
    \/ RunJobRecord("bg")
    \/ RunJobFinally("bg")

ForceMaintenanceStep ==
    \/ ForceMaintenanceAcquire
    \/ ForceMaintenanceGetJob
    \/ ForceMaintenanceLock
    \/ RunJobRecord("fm")
    \/ RunJobFinally("fm")

RunJobImmediatelyStep ==
    \/ RunJobImmediatelyLock
    \/ RunJobRecord("rji")
    \/ RunJobFinally("rji")

EnvironmentStep ==
    \/ ForceMaintenanceCall
    \/ RunJobImmediatelyCall
    \/ \E th \in MThreads : JobKeyCancel(th)
    \/ ScheduleJob
    \/ CancelJobs
    \/ ClearJobs
    \/ NotifyNewOptions
    \/ Shutdown
    \/ AbleChanges

NextMaint ==
    \/ BackgroundStep
    \/ BGSleep
    \/ ForceMaintenanceStep
    \/ RunJobImmediatelyStep
    \/ EnvironmentStep

SpecMaint == InitMaint /\ [][NextMaint]_vars

\* ForceMaintenance is between its reset signal and its hold of the
\* maintenance lock, and nothing blocks it
ForceMaintenanceRunnable ==
    m_pc["fm"] = "FM_acquire" /\ maintenance_lock = {}

\* time.sleep( 2 ) of the background loop outlasts the few statements of a
\* thread that can take the free maintenance lock
BGSleepTimed ==
    /\ ~ForceMaintenanceRunnable
    /\ BGSleep

\* the background loop and ForceMaintenance, with every public call that
\* changes the queue or the signals
NextMaintLive ==
    \/ BackgroundStep
    \/ BGSleepTimed
    \/ ForceMaintenanceStep
    \/ ForceMaintenanceCall
    \/ JobKeyCancel("fm")
    \/ ScheduleJob
    \/ CancelJobs
    \/ ClearJobs
    \/ Shutdown
    \/ AbleChanges

\* every thread that can take a step takes one
SpecMaintLive ==
    /\ InitMaint
    /\ [][NextMaintLive]_vars
    /\ WF_vars(BackgroundStep \/ BGSleepTimed)
    /\ WF_vars(ForceMaintenanceStep)

\* the same, with locks that serve every waiter: a thread gets a lock it
\* waits for if the lock is free again and again
SpecMaintFair ==
    /\ InitMaint
    /\ [][NextMaintLive]_vars
    /\ SF_vars(BackgroundStep \/ BGSleepTimed)
    /\ SF_vars(ForceMaintenanceStep)

\* ------------------------------------------------------------------------
\* The background loop and ScheduleJob, statement by statement: the read of
\* the queue, the wait and the clear of the loop, the write and the set of
\* ScheduleJob
\* ------------------------------------------------------------------------

\* the steps of the background loop that need no timeout of the idle wait
BackgroundWakeStep ==
    \/ BGStart
    \/ BGHead
    \/ BGAcquire
    \/ BGWait
    \/ BGShouldReset
    \/ BGLock
    \/ BGIdleWaitReturns
    \/ BGIdleClear
    \/ BGSleep
    \/ RunJobRecord("bg")
    \/ RunJobFinally("bg")

NextWake ==
    \/ BackgroundWakeStep
    \/ BGIdleWaitTimesOut
    \/ ScheduleJobInsert
    \/ ScheduleJobSet
    \/ Shutdown
    \/ AbleChanges

\* the background loop keeps running and a ScheduleJob call returns; the
\* idle wait may last its ten minutes for ever
SpecWake ==
    /\ InitMaint
    /\ [][NextWake]_vars
    /\ WF_vars(BackgroundWakeStep)
    /\ WF_vars(ScheduleJobSet)

\* ------------------------------------------------------------------------
\* RunJobImmediately on a batch longer than the limit of cleared_jobs
\* ------------------------------------------------------------------------

\* records of the longest batch
MaxBatch == 258

\* the batches one or two records longer than the limit
LongBatches == {[i \in 1..n |-> i] : n \in (ClearedJobsLimit + 1)..MaxBatch}

\* the job bodies of a long batch succeed, but for one that ends the batch
LongBatchOutcomes == {"ok", "io", "shutdown"}

\* the records of a long batch after which the ten seconds may be over: early
\* ones, one in the middle, and the ones at the limit
TimedRecords ==
    {1, 2, ClearedJobsLimit \div 2, ClearedJobsLimit - 1, ClearedJobsLimit, ClearedJobsLimit + 1}

\* what TimeHasPassed may give after the next record of the call
TimesOfLongBatch == IF Len(m_log["rji"]) + 1 \in TimedRecords THEN BOOLEAN ELSE {FALSE}

\* RunJobImmediately has been called on a long batch, with a job of the
\* kind pending for every record, and is about to take the lock
InitFlush ==
    /\ InitStoreFrom([p \in Prefixes |-> LocationOrder[1]], <<<<LocationOrder[1], 1>>>>, None)
    /\ InitNoFiles
    /\ InitNoChecks
    /\ job_queue = (1..MaxBatch) \X JobTypes
    /\ media_hashes = 1..MaxBatch
    /\ able = FALSE
    /\ serious_error_encountered = FALSE
    /\ shutdown = FALSE
    /\ reset_background_event = TRUE
    /\ wake_background_event = FALSE
    /\ maintenance_lock = {}
    /\ lock = {}
    /\ \E media_results \in LongBatches, job_type \in JobTypes :
          /\ m_pc = [th \in MThreads |-> IF th = "rji" THEN "RJI_lock" ELSE "idle"]
          /\ m_job = [th \in MThreads |-> IF th = "rji" THEN media_results ELSE <<>>]
          /\ m_type = [th \in MThreads |-> IF th = "rji" THEN job_type ELSE None]
    /\ m_idx = [th \in MThreads |-> 0]
    /\ m_run = [th \in MThreads |-> <<>>]
    /\ m_cleared = [th \in MThreads |-> {}]
    /\ m_reported = [th \in MThreads |-> {}]
    /\ m_log = [th \in MThreads |-> <<>>]
    /\ m_cancelled = [th \in MThreads |-> FALSE]
    /\ m_after_error = [th \in MThreads |-> FALSE]
    /\ m_batch_ran = [th \in MThreads |-> FALSE]
    /\ m_intruded = [th \in MThreads |-> FALSE]

NextFlush ==
    \/ RunJobImmediatelyLock
    \/ RunJobRecordOf("rji", LongBatchOutcomes, TimesOfLongBatch)
    \/ RunJobFinally("rji")
    \/ JobKeyCancel("rji")
    \/ Shutdown

SpecFlush == InitFlush /\ [][NextFlush]_vars

\* ------------------------------------------------------------------------
\* The calls on the files on disk, from every set of files
\* ------------------------------------------------------------------------

\* every prefix is in the first location
OneLocationMap == [p \in Prefixes |-> LocationOrder[1]]

\* the paths the files and thumbnails of the hashes can have
DiskFilePaths ==
    {GenerateExpectedFilePath(OneLocationMap, hash, mime) :
        hash \in DiskHashes, mime \in Range(ALLOWED_MIMES)}

DiskThumbnailPaths == {GenerateExpectedThumbnailPath(OneLocationMap, hash) : hash \in DiskHashes}

InitDiskStore ==
    /\ InitStoreFrom(OneLocationMap, <<<<LocationOrder[1], 1>>>>, None)
    /\ InitNoFiles
    /\ InitNoMaintenance
    /\ InitIntegrityFrom([hash |-> 1, urls |-> <<>>], "good")
    /\ overrule_lookup = NoTuple
    /\ schedule_call = NoTuple
    /\ path_calls = <<>>

InitDisk ==
    /\ InitDiskStore
    /\ \E paths \in SUBSET (DiskFilePaths \cup DiskThumbnailPaths) : InitDiskFrom(paths, {})

NextDisk ==
    \/ GetFilePathCall
    \/ RegenFileMetadata
    \/ DeleteNeighbourDupesCall
    \/ AddThumbnailFromBytesCall
    \/ ExternalRemoveDir

SpecDisk == InitDisk /\ [][NextDisk]_vars

InitDeferred ==
    /\ InitDiskStore
    /\ \E paths \in SUBSET (DiskFilePaths \cup DiskThumbnailPaths) :
       \E pairs \in SUBSET DeferredPairs :
          /\ Cardinality(pairs) <= MaxPendingPairs
          /\ InitDiskFrom(paths, pairs)

NextDeferred ==
    \/ DoDeferredPhysicalDeletesBegin
    \/ DoDeferredPhysicalDeletesTurn
    \/ DoDeferredPhysicalDeletesShutdown
    \/ StartShutdown
    \/ ExternalRemoveDir

SpecDeferred == InitDeferred /\ [][NextDeferred]_vars

\* the files of the store when orphans are cleared: files and thumbnails
\* named by hashes, and a file and a thumbnail whose names are not hex
OrphanStorePaths ==
    {GenerateExpectedFilePath(OneLocationMap, hash, ALLOWED_MIMES[1]) : hash \in DiskHashes}
    \cup DiskThumbnailPaths
    \cup {PathJoin(LocationOrder[1], FilePrefix(1), <<NotHexName, ".db">>),
          PathJoin(LocationOrder[1], ThumbnailPrefix(1), <<NotHexName, ".db">>)}

InitOrphans ==
    /\ InitDiskStore
    /\ \E paths \in SUBSET OrphanStorePaths : InitDiskFrom(paths, {})

NextOrphans ==
    \/ ClearOrphansBegin
    \/ ClearOrphansReview
    \/ ClearOrphansDelete
    \/ ClearOrphansCancel

SpecOrphans == InitOrphans /\ [][NextOrphans]_vars

\* ------------------------------------------------------------------------
\* Properties of rebalancing
\* ------------------------------------------------------------------------

IdealWeightOf(ideal, location) ==
    IF location \in ConfigLocations(ideal)
    THEN (CHOOSE e \in Range(ideal) : e[1] = location)[2]
    ELSE 0

\* |current_weight - ideal_weight| of a location, times NumHex * total_weight
Deviation(map, ideal, location) ==
    Abs(CurrentCount(map, location) * SumWeights(ideal) - IdealWeightOf(ideal, location) * NumHex)

MaxDeviation(map, ideal) ==
    CHOOSE d \in {Deviation(map, ideal, l) : l \in Locations} :
        \A l \in Locations : Deviation(map, ideal, l) <= d

FileMapChanges ==
    \E p \in FilePrefixes : prefixes_to_locations'[p] # prefixes_to_locations[p]

\* C1: from every map and every configuration a rebalance pass makes at most
\* NumHex file-shard moves and at most NumHex thumbnail-shard moves before
\* _GetRebalanceTuple returns None.
C1_MovesBounded ==
    /\ num_file_moves <= NumHex
    /\ num_thumb_moves <= NumHex

\* C2: a file-shard move never increases the maximum over the locations of
\* |current_weight - ideal_weight|.
C2_DeviationNonIncreasing ==
    [][FileMapChanges =>
        MaxDeviation(prefixes_to_locations', ideal_locations')
            <= MaxDeviation(prefixes_to_locations, ideal_locations)]_vars

\* a pass that has moved a file shard into a location that stays below its
\* ideal weight
C2_Witness ==
    /\ reb_pc = "rebalancing"
    /\ num_file_moves > 0
    /\ \E l \in Locations :
          /\ CurrentCount(prefixes_to_locations, l) > 0
          /\ CurrentCount(prefixes_to_locations, l) * SumWeights(ideal_locations)
                < IdealWeightOf(ideal_locations, l) * NumHex

\* ------------------------------------------------------------------------
\* Properties of the location map
\* ------------------------------------------------------------------------

\* C10: after any sequence of relocations, repairs and reloads the location
\* map is a total function on the fixed set of prefixes: every prefix has
\* exactly one row in the table and one location in the loaded map.
C10_MapTotal ==
    /\ DOMAIN prefixes_to_locations = Prefixes
    /\ \A p \in Prefixes :
          /\ prefixes_to_locations[p] \in Locations
          /\ Cardinality({r \in db_client_files_locations : r[1] = p}) = 1
          /\ <<p, prefixes_to_locations[p]>> \in db_client_files_locations

\* a pass that relocated shards and whose reload repaired a row has ended
C10_Witness ==
    /\ reb_pc = "done"
    /\ repair_rows # {}
    /\ num_file_moves + num_thumb_moves > 1

\* the location the table has for a prefix
RowLocation(rows, p) == (CHOOSE r \in rows : r[1] = p)[2]

\* the known locations other than the mapped one that hold a directory of p
HealCandidates(p) ==
    LET known == {r[2] : r \in db_client_files_locations}
                    \cup {ideal_locations[i][1] : i \in DOMAIN ideal_locations}
                    \cup ({thumbnail_override} \ {None})
    IN {l \in known \ {RowLocation(db_client_files_locations, p)} : <<l, p>> \in dirs}

PrefixIsMissing(p) == <<RowLocation(db_client_files_locations, p), p>> \notin dirs

\* C11: the heal pass of _Reinit remaps a missing prefix if and only if
\* exactly one other known location (a value of the map, a location of the
\* ideal configuration, the thumbnail override) holds a directory of that
\* prefix, and then to that location; with no or several such locations,
\* and for a prefix that is not missing, the row is left as it is.
C11_HealsIffOneCandidate ==
    [][reb_pc = "constructing" /\ reb_pc' = "idle" =>
         \A p \in Prefixes :
            RowLocation(db_client_files_locations', p) =
               IF PrefixIsMissing(p) /\ Cardinality(HealCandidates(p)) = 1
               THEN CHOOSE l \in HealCandidates(p) : TRUE
               ELSE RowLocation(db_client_files_locations, p)]_vars

\* a heal pass has remapped one prefix and has left another, which has
\* directories in two other locations, unresolved
C11_Witness ==
    /\ reb_pc = "idle"
    /\ repair_rows # {}
    /\ \E m \in missing_locations :
          Cardinality({l \in Locations : <<l, m[2]>> \in dirs}) >= 2

\* C12: once _bad_error_occurred is true it stays true and no
\* relocate_client_files is issued any more, not even by the Rebalance pass
\* that is running when the flag is set.
C12_NoRelocateAfterBadError ==
    [][bad_error_occurred =>
         /\ bad_error_occurred'
         /\ ~(reb_pc = "rebalancing" /\ rebalance_tuple # NoTuple /\ ~reb_cancelled
                /\ <<db_client_files_locations, num_file_moves, num_thumb_moves>>'
                      # <<db_client_files_locations, num_file_moves, num_thumb_moves>>)]_vars

\* ------------------------------------------------------------------------
\* Properties of AddFile
\* ------------------------------------------------------------------------

\* C13: a call of AddFile that gets, for the drive of the destination, a free
\* space below 100MB or below the size of the file does not call MirrorFile,
\* calls _HandleCriticalDriveError exactly once (the imports are paused) and
\* raises; no file and no thumbnail is written. The free space is the one
\* _GetFileStorageFreeSpace returns.
C13_FullDriveRefusesFile ==
    [][\A t \in Threads :
          (/\ fs_pc[t] = "AddFile_add"
           /\ fs_pc'[t] = "AddFile_release"
           /\ \/ fs_arg'[t].dest_free_space < HundredMegabytes
              \/ fs_arg'[t].dest_free_space < fs_arg[t][4])
          => /\ ~fs_arg'[t].mirror_called
             /\ fs_arg'[t].critical_drive_errors = 1
             /\ fs_arg'[t].raised
             /\ paused'
             /\ files' = files
             /\ thumbnails' = thumbnails]_vars

\* a call with thumbnail bytes has been refused on a drive with 100MB or more
\* that could not take the file, after an earlier call had stored a file
C13_Witness ==
    \E t \in Threads :
       /\ fs_pc[t] = "AddFile_release"
       /\ fs_arg[t].dest_free_space >= HundredMegabytes
       /\ ~fs_arg[t].mirror_called
       /\ fs_arg[t].raised
       /\ files # {}

\* ------------------------------------------------------------------------
\* Properties of the file integrity check
\* ------------------------------------------------------------------------

TryUrlElseRemoveRecord ==
    {"PRESENCE_TRY_URL_ELSE_REMOVE_RECORD", "DATA_TRY_URL_ELSE_REMOVE_RECORD"}

\* a check of job_type finds the file of the record bad: it is missing, or
\* the kind reads its bytes and they have another hash
FoundBad(job_type) ==
    \/ record_file = "missing"
    \/ record_file = "invalid" /\ job_type = "DATA_TRY_URL_ELSE_REMOVE_RECORD"

\* the URLs of the record of file type, of post type or without a class
FilePostOrUnclassified ==
    {url \in DOMAIN media_result.urls :
        media_result.urls[url] \in {"URL_TYPE_FILE", "URL_TYPE_POST", "None"}}

\* the step is a 'try URL else remove record' check that finds the file bad
TryUrlElseRemoveRecordStep ==
    /\ num_checks' = num_checks + 1
    /\ integrity_call'.job_type \in TryUrlElseRemoveRecord
    /\ FoundBad(integrity_call'.job_type)

\* the entries the step has appended to the sequence log
Appended(log) == SubSeq(log', Len(log) + 1, Len(log'))

\* C14: a 'presence/data try URL else remove record' check of a bad file with
\* at least one useful URL (file type, post type or unclassified) decides
\* try_redownload and not delete_record: every useful URL is given to the
\* redownloader exactly once and nothing else is, the hash is appended to the
\* missing hashes log, and no content update is written.
C14_BadFileWithUrlIsRedownloaded ==
    [][TryUrlElseRemoveRecordStep /\ FilePostOrUnclassified # {} =>
          /\ integrity_call'.try_redownload
          /\ ~integrity_call'.delete_record
          /\ SubSeq(redownloader', 1, Len(redownloader)) = redownloader
          /\ Len(redownloader') = Len(redownloader) + Cardinality(FilePostOrUnclassified)
          /\ Range(Appended(redownloader)) = FilePostOrUnclassified
          /\ missing_hashes_log' = Append(missing_hashes_log, media_result.hash)
          /\ content_updates' = content_updates]_vars

\* a 'presence' check has found the file of a record with one useful and one
\* useless URL missing and has given the useful one to the redownloader
C14_Witness ==
    /\ num_checks > 0
    /\ integrity_call.job_type = "PRESENCE_TRY_URL_ELSE_REMOVE_RECORD"
    /\ integrity_call.try_redownload
    /\ Cardinality(DOMAIN media_result.urls) = 2
    /\ Len(redownloader) = 1
    /\ Len(missing_hashes_log) = 1

\* C15: a 'presence/data try URL else remove record' check of a bad file with
\* no useful URL decides delete_record and not try_redownload: no URL is
\* given to the redownloader, and a DELETE content update and then a
\* CLEAR_DELETE_RECORD content update are written for the hash.
C15_BadFileWithoutUrlIsRemoved ==
    [][TryUrlElseRemoveRecordStep /\ FilePostOrUnclassified = {} =>
          /\ ~integrity_call'.try_redownload
          /\ integrity_call'.delete_record
          /\ redownloader' = redownloader
          /\ SubSeq(content_updates', 1, Len(content_updates)) = content_updates
          /\ Appended(content_updates) =
                <<<<"CONTENT_UPDATE_DELETE", media_result.hash>>,
                  <<"CONTENT_UPDATE_CLEAR_DELETE_RECORD", media_result.hash>>>>]_vars

\* a 'data' check has found the file of a record invalid whose URLs are all
\* useless, and has removed the record
C15_Witness ==
    /\ num_checks > 0
    /\ integrity_call.job_type = "DATA_TRY_URL_ELSE_REMOVE_RECORD"
    /\ integrity_call.delete_record
    /\ DOMAIN media_result.urls # {}
    /\ <<"file", media_result.hash>> \in error_dir
    /\ Len(content_updates) = 2

\* the step is a _CheckFileIntegrity call
IntegrityStep == num_checks' = num_checks + 1

\* C34: a check that decides delete_record writes a DELETE content update for
\* the hash, followed by a CLEAR_DELETE_RECORD content update exactly when
\* the kind is not 'presence, delete record'; a check that does not decide
\* delete_record writes no content update.
C34_DeleteRecordUpdates ==
    [][IntegrityStep =>
          /\ SubSeq(content_updates', 1, Len(content_updates)) = content_updates
          /\ integrity_call'.delete_record =>
                /\ Len(Appended(content_updates)) >= 1
                /\ Appended(content_updates)[1] = <<"CONTENT_UPDATE_DELETE", media_result.hash>>
                /\ Tail(Appended(content_updates)) =
                      IF integrity_call'.job_type # "PRESENCE_DELETE_RECORD"
                      THEN <<<<"CONTENT_UPDATE_CLEAR_DELETE_RECORD", media_result.hash>>>>
                      ELSE <<>>
          /\ ~integrity_call'.delete_record => content_updates' = content_updates]_vars

\* a 'presence, delete record' check has deleted the record of a missing
\* file and left the deletion record, after a 'presence, remove record' check
\* that deleted it and cleared the deletion record
C34_Witness ==
    /\ num_checks = 2
    /\ integrity_call.job_type = "PRESENCE_DELETE_RECORD"
    /\ integrity_call.delete_record
    /\ content_updates = <<<<"CONTENT_UPDATE_DELETE", media_result.hash>>,
                           <<"CONTENT_UPDATE_CLEAR_DELETE_RECORD", media_result.hash>>,
                           <<"CONTENT_UPDATE_DELETE", media_result.hash>>>>

\* C38: no check decides both try_redownload and delete_record, so no check
\* both gives URLs to the redownloader and writes a content update; a
\* 'presence, log only' check and a 'data, silent delete' check decide
\* neither, whatever the file and the URLs are.
C38_RedownloadExcludesDelete ==
    [][IntegrityStep =>
          /\ ~(integrity_call'.try_redownload /\ integrity_call'.delete_record)
          /\ redownloader' = redownloader \/ content_updates' = content_updates
          /\ integrity_call'.job_type \in {"PRESENCE_LOG_ONLY", "DATA_SILENT_DELETE"} =>
                /\ ~integrity_call'.try_redownload
                /\ ~integrity_call'.delete_record
                /\ redownloader' = redownloader
                /\ content_updates' = content_updates]_vars

\* a 'data, silent delete' check has found the file of a record with a useful
\* URL missing and has decided neither, after a check of the same record that
\* found the file invalid, moved it away and gave the URL to the redownloader
C38_Witness ==
    /\ num_checks = 2
    /\ integrity_call.job_type = "DATA_SILENT_DELETE"
    /\ integrity_call.file_was_bad
    /\ UsefulURLs(media_result.urls) # {}
    /\ redownloader # <<>>
    /\ content_updates = <<>>
    /\ <<"file", media_result.hash>> \in error_dir

\* C39: a check whose lookup finds the shard directory of the file missing
\* ends with DirectoryMissingException: the file does not count as missing,
\* no content update is written and no URL is given to the redownloader,
\* whatever the kind of the job, the files on disk and the URLs are.
C39_MissingDirectoryDeletesNothing ==
    [][IntegrityStep /\ ~FileSubdirExists(dirs, prefixes_to_locations, media_result.hash) =>
          /\ d_call'.raised = "DirectoryMissingException"
          /\ ~d_call'.file_is_missing
          /\ content_updates' = content_updates
          /\ redownloader' = redownloader
          /\ integrity_call' = integrity_call]_vars

\* a 'presence, remove record' check of a record with a useful URL, looked up
\* with files in a shard directory that has been disconnected, has ended
\* with DirectoryMissingException and has left the record alone
C39_Witness ==
    /\ d_call # NoTuple
    /\ d_call.fn = "_CheckFileIntegrity"
    /\ d_call.job_type = "PRESENCE_REMOVE_RECORD"
    /\ d_call.raised = "DirectoryMissingException"
    /\ d_call.files # {}
    /\ UsefulURLs(media_result.urls) # {}
    /\ content_updates = <<>>
    /\ redownloader = <<>>

\* how often the message is in the sequence
Shown(messages, message) == Cardinality({i \in DOMAIN messages : messages[i] = message})

\* the bad record delete message and the invalid file export message are
\* shown at most once, however many checks find a bad file
FlaggedWarningsShownOnce ==
    /\ Shown(shown_messages, "bad_file_record_delete") <= 1
    /\ Shown(shown_messages, "invalid_file_export") <= 1

\* C37: the bad record delete message, the invalid file export message and
\* the unexpected problem message are each shown at most once in a session.
C37_WarningsShownOnce ==
    /\ FlaggedWarningsShownOnce
    /\ Shown(shown_messages, "unexpected_problem") <= 1

\* ------------------------------------------------------------------------
\* Properties of the overrule table
\* ------------------------------------------------------------------------

\* the log-only, try-URL-only and remove-record-only checks a 'try URL else
\* remove record' kind is made of
ComponentChecks(job_type) ==
    CASE job_type = "PRESENCE_TRY_URL_ELSE_REMOVE_RECORD" ->
            {"PRESENCE_LOG_ONLY", "PRESENCE_TRY_URL", "PRESENCE_REMOVE_RECORD"}
      [] job_type = "DATA_TRY_URL_ELSE_REMOVE_RECORD" ->
            {"PRESENCE_LOG_ONLY", "PRESENCE_TRY_URL", "PRESENCE_REMOVE_RECORD",
             "DATA_TRY_URL", "DATA_REMOVE_RECORD"}
      [] OTHER -> {}

LookedUp == overrule_lookup # NoTuple /\ "overrules" \in DOMAIN overrule_lookup

\* C16: the overrule table is transitively closed and irreflexive, and both
\* 'try URL else remove record' kinds overrule each of their component checks:
\* for every pair of kinds A, B looked up, A lists B when A overrules a kind
\* that overrules B, A does not list B when A = B, and A lists B when B is a
\* component check of A.
C16_OverruleTransitiveIrreflexive ==
    LookedUp =>
       /\ overrule_lookup.through # {} => overrule_lookup.overrules
       /\ overrule_lookup.job_type_a = overrule_lookup.job_type_b => ~overrule_lookup.overrules
       /\ overrule_lookup.job_type_b \in ComponentChecks(overrule_lookup.job_type_a)
             => overrule_lookup.overrules

\* the 'data' kind has been looked up against the log-only check, which it
\* overrules through four other kinds
C16_Witness ==
    /\ LookedUp
    /\ overrule_lookup.job_type_a = "DATA_TRY_URL_ELSE_REMOVE_RECORD"
    /\ overrule_lookup.job_type_b = "PRESENCE_LOG_ONLY"
    /\ Cardinality(overrule_lookup.through) = 4
    /\ overrule_lookup.overrules

\* C17: after ScheduleJob( hashes, A ) and its insertion, no job of a kind
\* that A overrules is pending for any of the hashes, and the jobs of kind A
\* are pending.
C17_ScheduleDropsOverruled ==
    schedule_call # NoTuple =>
       \A h \in schedule_call.hashes :
          /\ <<h, schedule_call.job_type>> \in job_queue
          /\ \A k \in AllJobTypes :
                k \in Range(regen_file_enum_to_overruled_jobs[schedule_call.job_type])
                   => <<h, k>> \notin job_queue

\* a FORCE_THUMBNAIL job has been scheduled for a hash with a pending
\* REFIT_THUMBNAIL job
C17_Witness ==
    /\ schedule_call # NoTuple
    /\ schedule_call.job_type = "FORCE_THUMBNAIL"
    /\ \E h \in schedule_call.hashes : <<h, "REFIT_THUMBNAIL">> \in schedule_call.overruled

\* ------------------------------------------------------------------------
\* Properties of the thumbnail refit job
\* ------------------------------------------------------------------------

\* C18: a REFIT_THUMBNAIL job that finds the thumbnail of the file with the
\* expected size writes no thumbnail and no file and returns False, on every
\* run, so also on a second run after a first that changed nothing.
C18_RefitOfRightThumbnailIsNoOp ==
    [][\A t \in Threads :
          (/\ fs_pc[t] = "RegenerateThumbnailIfWrongSize_probe"
           /\ fs_pc'[t] # fs_pc[t]
           /\ Len(fs_arg[t]) = 4
           /\ thumbnails[fs_arg[t][1]] = "right")
          => /\ fs_pc'[t] = "idle"
             /\ was_regenerated' = Append(was_regenerated, "False")
             /\ thumbnails' = thumbnails
             /\ files' = files]_vars

\* two refit jobs in a row have found the thumbnail right
C18_Witness ==
    /\ was_regenerated = <<"False", "False">>
    /\ \E h \in Hashes : thumbnails[h] = "right"

\* ------------------------------------------------------------------------
\* Properties of the expected paths
\* ------------------------------------------------------------------------

\* the calls so far that have returned a path
ReturnedCalls == {i \in DOMAIN path_calls : path_calls[i].path # NoTuple}

\* the hex prefix of a hash and the name part after it, as the hash gives them
FirstTwoHex(hash) == ((hash - 1) % NumHex) + 1

\* C19: the expected file path and the expected thumbnail path depend on the
\* hash, the mime and the location map only: two calls for the same hash and
\* mime that saw the same map returned the same path; a file path is
\* location('f' + hex[0:2]) / 'f' + hex[0:2] / hex + ext(mime), a thumbnail
\* path is location('t' + hex[0:2]) / 't' + hex[0:2] / hex + '.thumbnail'.
C19_PathsDependOnHashMimeMap ==
    /\ \A i \in ReturnedCalls : \A j \in ReturnedCalls :
          (/\ path_calls[i].fn = path_calls[j].fn
           /\ path_calls[i].hash = path_calls[j].hash
           /\ path_calls[i].mime = path_calls[j].mime
           /\ path_calls[i].map = path_calls[j].map)
          => path_calls[i].path = path_calls[j].path
    /\ \A i \in ReturnedCalls :
          LET c == path_calls[i]
              kind == IF c.fn = "_GenerateExpectedFilePath" THEN "f" ELSE "t"
              ext == IF c.fn = "_GenerateExpectedFilePath" THEN mime_ext_lookup[c.mime]
                     ELSE ".thumbnail"
          IN /\ c.path[1] = c.map[<<kind, FirstTwoHex(c.hash)>>]
             /\ c.path[2] = <<kind, FirstTwoHex(c.hash)>>
             /\ c.path[3] = <<HexEncoded(c.hash), ext>>
             /\ HexEncoded(c.hash)[1] = FirstTwoHex(c.hash)

\* after a rebalance has moved a shard, the file path of a hash and mime has
\* been made twice under the same map
C19_Witness ==
    /\ Len(path_calls) = 2
    /\ ReturnedCalls = {1, 2}
    /\ path_calls[1].fn = "_GenerateExpectedFilePath"
    /\ path_calls[2].fn = "_GenerateExpectedFilePath"
    /\ path_calls[1].hash = path_calls[2].hash
    /\ path_calls[1].mime = path_calls[2].mime
    /\ path_calls[1].map = path_calls[2].map
    /\ num_file_moves > 0

\* ------------------------------------------------------------------------
\* Properties of the file read/write lock
\* ------------------------------------------------------------------------

\* the positions at which a call adds, copies, renames or deletes a file or
\* thumbnail
MutatingPositions ==
    {"AddFile_add", "GetFilePath_changeext", "ChangeFileExt_change",
     "LocklessAddFile_write", "RegenerateThumbnail_write", "DeleteNeighbourDupes_delete"}

\* the positions at which a call has made a path from the location map and
\* reads or probes it on disk
PathPositions ==
    MutatingPositions \cup
    {"GetFilePath_look", "LocklessHasThumbnail_probe", "RegenerateThumbnailIfWrongSize_probe",
     "RegenerateThumbnail_read", "GetThumbnailPath_probe"}

RebalanceHasRelocated ==
    RebalanceHoldsWriteLock /\ num_file_moves + num_thumb_moves > 0

\* C6: every physical mutation of the file store is made by a thread that
\* holds the read/write lock in write mode; no call that holds only the read
\* mode and no lock-free entry point mutates files.
C6_MutationsHoldWriteLock ==
    \A t \in Threads : fs_pc[t] \in MutatingPositions => t \in rw_writer

\* C7: while a Rebalance pass is in progress (from its first relocation until
\* it releases the write lock) no other thread makes a path from the location
\* map or probes a path on disk.
C7_NoPathUseDuringRebalance ==
    RebalanceHasRelocated => \A t \in Threads : fs_pc[t] \notin PathPositions

\* ------------------------------------------------------------------------
\* Properties of the maintenance manager
\* ------------------------------------------------------------------------

\* the thread runs a job body in this step
BodyRuns(th) == Len(m_log'[th]) > Len(m_log[th])

\* the thread takes a step of its call
Acted(th) == <<m_pc[th], m_log[th]>>' # <<m_pc[th], m_log[th]>>

\* _RunJob returns in this step
RunJobReturns(th) == m_pc[th] = "RunJob_finally" /\ m_pc'[th] # "RunJob_finally"

\* the hashes of the running _RunJob whose job body ended with one of outcomes
HashesWith(th, outcomes) ==
    {m_run[th][i] : i \in {j \in DOMAIN m_log[th] : m_log[th][j] \in outcomes}}

FailedHashes(th) == HashesWith(th, {"exception", "io"})

\* C3: when a job body raises an I/O error the sticky flag
\* _serious_error_encountered is set, the error is the last body of its
\* batch, and from then on the flag is never reset and no job body runs.
C3_SeriousErrorHalts ==
    /\ [](\A th \in MThreads :
             \A i \in DOMAIN m_log[th] :
                m_log[th][i] = "io" => serious_error_encountered /\ i = Len(m_log[th]))
    /\ [][serious_error_encountered =>
             serious_error_encountered' /\ \A th \in MThreads : ~BodyRuns(th)]_vars

\* an I/O error on a record that is not the last of its batch
C3_Witness ==
    \E th \in MThreads :
       /\ m_pc[th] = "RunJob_finally"
       /\ m_log[th] # <<>>
       /\ m_log[th][Len(m_log[th])] = "io"
       /\ Len(m_log[th]) < Len(m_run[th])

\* C4: a call of RunJobImmediately or ForceMaintenance and an iteration of
\* the background loop that begin after the flag is set run no job body and
\* leave the job queue as it is.
C4_NoOpAfterError ==
    [][\A th \in MThreads :
          m_after_error[th] /\ Acted(th) =>
             ~BodyRuns(th) /\ job_queue' = job_queue]_vars

\* a RunJobImmediately call with pub_job_key False that began after the
\* error is about to call _RunJob on records that are pending
C4_Witness ==
    /\ m_after_error["rji"]
    /\ m_pc["rji"] = "RJI_lock"
    /\ lock = {}
    /\ \E h \in Range(m_job["rji"]) : <<h, m_type["rji"]>> \in job_queue

Aborted(th) ==
    /\ m_pc[th] = "RunJob_finally"
    /\ Len(m_log[th]) < Len(m_run[th])
    /\ m_log[th] # <<>> => m_log[th][Len(m_log[th])] \in {"ok", "exception"}

\* the records of the running _RunJob that no job body has been run for
RemainingHashes(th) == {m_run[th][i] : i \in (Len(m_log[th]) + 1)..Len(m_run[th])}

\* C20: when _RunJob finds the job key cancelled or the shutdown flag set
\* before a record, it returns at once: no job body runs for that record or a
\* later one, none of them is reported as cleared and those that were pending
\* stay pending, and every record marked cleared before is written to the
\* queue exactly once, by an earlier flush or by the write at the return.
C20_AbortLeavesRestScheduled ==
    /\ [](\A th \in MThreads :
             /\ m_cleared[th] \cap m_reported[th] = {}
             /\ Aborted(th) =>
                   /\ RemainingHashes(th) \cap (m_cleared[th] \cup m_reported[th]) = {}
                   /\ HashesWith(th, {"ok", "exception"}) = m_cleared[th] \cup m_reported[th])
    /\ [][\A th \in MThreads :
             /\ (m_pc[th] = "RunJob_loop" /\ (m_cancelled[th] \/ shutdown) /\ Acted(th))
                   => /\ ~BodyRuns(th)
                      /\ m_pc'[th] = "RunJob_finally"
                      /\ UNCHANGED <<job_queue, m_cleared, m_reported>>
             /\ (Aborted(th) /\ RunJobReturns(th))
                   => /\ \A h \in RemainingHashes(th) :
                            <<h, m_type[th]>> \in job_queue => <<h, m_type[th]>> \in job_queue'
                      /\ \A h \in m_cleared[th] : <<h, m_type[th]>> \notin job_queue'
                      /\ \A q \in job_queue \ job_queue' : q[1] \in m_cleared[th]]_vars

\* a cancelled call is about to return with its first record marked cleared
\* and its second record, still pending, not run
C20_Witness ==
    \E th \in MThreads :
       /\ Aborted(th)
       /\ m_cancelled[th]
       /\ ~shutdown
       /\ m_log[th] = <<"ok">>
       /\ m_run[th][1] \in m_cleared[th] \cup m_reported[th]
       /\ <<m_run[th][2], m_type[th]>> \in job_queue

\* the _RunJob call of RunJobImmediately is between two records
BetweenRecords == m_pc["rji"] = "RunJob_loop"

\* the records of the call whose job body has run and is to be reported
ClearedSoFar == HashesWith("rji", {"ok", "exception", "io"})

\* every record to be reported is in cleared_jobs or has been written, never
\* both; the jobs written are off the queue and no other is; the write at
\* the return takes what is left in cleared_jobs off the queue
ClearedJobsReportedOnce ==
    /\ [](/\ m_cleared["rji"] \cap m_reported["rji"] = {}
          /\ m_pc["rji"] \in {"RunJob_loop", "RunJob_finally"} =>
                /\ ClearedSoFar = m_cleared["rji"] \cup m_reported["rji"]
                /\ job_queue = ((1..MaxBatch) \ m_reported["rji"]) \X JobTypes)
    /\ [][/\ BodyRuns("rji") =>
                /\ m_reported["rji"] \subseteq m_reported'["rji"]
                /\ m_reported'["rji"] \ m_reported["rji"] \subseteq
                      m_cleared["rji"] \cup {m_run["rji"][Len(m_log'["rji"])]}
          /\ RunJobReturns("rji") =>
                job_queue' = ((1..MaxBatch) \ ClearedSoFar) \X JobTypes]_vars

\* C36, as stated: cleared_jobs is written as soon as it has 256 entries, so
\* that it never has 256 entries between two records; and every entry is
\* written exactly once.
C36_FlushedAt256 ==
    /\ [](BetweenRecords => Cardinality(m_cleared["rji"]) < ClearedJobsLimit)
    /\ ClearedJobsReportedOnce

\* C36, amended: cleared_jobs is written as soon as it has more than 256
\* entries, that is with its 257th: between two records it never has more
\* than 256, it can have 256, and a record that makes it 257 and does not end
\* the batch leaves it empty; and every entry is written exactly once.
C36_FlushedAbove256 ==
    /\ [](BetweenRecords => Cardinality(m_cleared["rji"]) <= ClearedJobsLimit)
    /\ [][(BodyRuns("rji") /\ Cardinality(m_cleared["rji"]) = ClearedJobsLimit
                           /\ m_pc'["rji"] = "RunJob_loop")
             => m_cleared'["rji"] = {} /\ Cardinality(m_reported'["rji"]) > ClearedJobsLimit]_vars
    /\ ClearedJobsReportedOnce

\* the first 257 records of a batch of 258 have been written, at once or
\* after earlier writes, and the last is to run with cleared_jobs empty
C36_Witness ==
    /\ BetweenRecords
    /\ Len(m_run["rji"]) = MaxBatch
    /\ Len(m_log["rji"]) = ClearedJobsLimit + 1
    /\ m_cleared["rji"] = {}
    /\ m_reported["rji"] = 1..(ClearedJobsLimit + 1)

\* the background loop is at its idle wait or between the wait and the clear
BGIsIdle == m_pc["bg"] \in {"BG_idle_wait", "BG_idle_clear"}

\* C35: when jobs are written while the background loop is at its idle wait,
\* about to wait, waiting or about to clear the event, the loop reads the
\* queue again and gets a job, with no timeout of the wait needed, unless the
\* manager shuts down; a wait that begins with a job pending has the event
\* set or a ScheduleJob call about to set it.
C35_WakeIsNotLost ==
    /\ (BGIsIdle /\ job_queue # {}) ~>
          (m_pc["bg"] = "BG_wait" \/ CheckShutdownRaises)
    /\ [](m_pc["bg"] = "BG_idle_wait" /\ job_queue # {} =>
             wake_background_event \/ lock = {"ScheduleJob"})

\* ScheduleJob has written a job and set the event after the wait of the
\* loop returned and before the loop clears the event
C35_Witness ==
    /\ m_pc["bg"] = "BG_idle_clear"
    /\ job_queue # {}
    /\ wake_background_event
    /\ lock = {}
    /\ ~CheckShutdownRaises

\* the thread is at with self._maintenance_lock, or at with self._lock
WaitsForMaintenanceLock(th) == m_pc[th] \in {"BG_acquire", "FM_acquire"}

WaitsForLock(th) == m_pc[th] \in {"BG_lock", "FM_lock", "RJI_lock"}

\* the thread waits for a lock that is held
BlockedOnLock(th) ==
    \/ WaitsForMaintenanceLock(th) /\ maintenance_lock # {}
    \/ WaitsForLock(th) /\ lock # {}

\* C40: the two locks cannot deadlock. Each has at most one holder; the
\* background loop and ForceMaintenance hold _lock only inside
\* _maintenance_lock; a thread that holds _lock waits for neither lock, and a
\* thread that holds _maintenance_lock waits at most for _lock; so whenever
\* a thread waits for a held lock, a thread that holds a lock is not blocked.
\* No step takes _maintenance_lock while holding _lock.
C40_LocksCannotDeadlock ==
    /\ [](/\ Cardinality(lock) <= 1
          /\ Cardinality(maintenance_lock) <= 1
          /\ \A th \in lock \cap {"bg", "fm"} : th \in maintenance_lock
          /\ \A th \in lock : ~WaitsForLock(th) /\ ~WaitsForMaintenanceLock(th)
          /\ \A th \in maintenance_lock : ~WaitsForMaintenanceLock(th)
          /\ (\E th \in MThreads : BlockedOnLock(th)) =>
                \E holder \in lock \cup maintenance_lock : ~BlockedOnLock(holder))
    /\ [][\A th \in MThreads :
             (th \notin maintenance_lock /\ th \in maintenance_lock') => th \notin lock]_vars

\* ForceMaintenance holds _maintenance_lock and waits for _lock, which
\* RunJobImmediately holds inside _RunJob, while the background loop waits
\* for _maintenance_lock
C40_Witness ==
    /\ maintenance_lock = {"fm"}
    /\ m_pc["fm"] = "FM_lock"
    /\ lock = {"rji"}
    /\ m_pc["rji"] = "RunJob_loop"
    /\ m_pc["bg"] = "BG_acquire"

\* the background loop moves from position p to another position q
BGMoves(p, q) == m_pc["bg"] = p /\ m_pc'["bg"] = q

\* the background loop arrives at position q
BGArrives(q) == m_pc["bg"] # q /\ m_pc'["bg"] = q

\* C21: the background loop runs a job body only for the single record of a
\* _RunJob call it made after wait_on_maintenance() was left with
\* _AbleToDoBackgroundMaintenance() returning True: an exit of the wait that
\* is owed to the reset event never reaches the call, each call comes from one
\* exit of the wait, and one call runs at most one body.
C21_RecordNeedsAdmission ==
    [][/\ BGArrives("BG_should_reset") => (m_pc["bg"] = "BG_wait" /\ able)
       /\ BGArrives("BG_should_reset_unable") =>
             (m_pc["bg"] = "BG_wait" /\ ~able /\ reset_background_event)
       /\ BGArrives("BG_lock") => m_pc["bg"] = "BG_should_reset"
       /\ BGArrives("RunJob_loop") => m_pc["bg"] = "BG_lock"
       /\ BodyRuns("bg") =>
             /\ m_pc["bg"] = "RunJob_loop"
             /\ m_log["bg"] = <<>>
             /\ Len(m_run["bg"]) = 1
             /\ m_pc'["bg"] = "RunJob_finally"
       /\ BGArrives("BG_wait") =>
             m_pc["bg"] \in {"BG_acquire", "BG_lock", "RunJob_finally"}]_vars

\* the background loop has run the body of the second record of a job, and
\* _AbleToDoBackgroundMaintenance() has turned False since it was admitted
C21_Witness ==
    /\ m_pc["bg"] = "RunJob_finally"
    /\ m_idx["bg"] = 1
    /\ m_log["bg"] = <<"ok">>
    /\ ~able

\* should_reset() returns True in this step and the for loop is left
BGBreaks ==
    /\ m_pc["bg"] \in {"BG_should_reset", "BG_should_reset_unable"}
    /\ m_pc'["bg"] = "BG_sleep"

\* C22: once the reset signal has fired while the background loop works on a
\* job, the loop calls _RunJob for no further record of the job, and when it
\* leaves the job it clears none of the records it has not run: the queue is
\* as the callers of the reset left it.
C22_ResetStopsBeforeNextRecord ==
    [][/\ BGArrives("RunJob_loop") => ~reset_background_event
       /\ BGBreaks => UNCHANGED job_queue]_vars

\* C23: once Shutdown() has set the flag, the background loop runs no further
\* job body and it ends: no wait of the loop, on the wake event, on the
\* permission to work or on a lock, holds it for ever.
C23_ShutdownEndsBackgroundLoop ==
    /\ [][shutdown => ~BodyRuns("bg")]_vars
    /\ shutdown ~> (m_pc["bg"] = "done")

\* the job key of a ForceMaintenance or RunJobImmediately call exists and the
\* finally block that sets 'done!', finishes it and schedules its deletion
\* has not run: the call is under way
JobKeyOpen(th) == m_pc[th] # "idle"

\* C24: the job key a ForceMaintenance call has made is in the end marked
\* 'done!', finished and scheduled for deletion: the call reaches its finally
\* block whatever stops the run, the empty queue, the cancellation, the halt
\* by an I/O error or the shutdown.
C24_JobKeyIsFinished ==
    JobKeyOpen("fm") ~> ~JobKeyOpen("fm")

\* the last call that ended was a call of fn
LastCall(fn) == d_call # NoTuple /\ d_call.fn = fn

\* the expected path of the file of the last call under a mime, by the map
\* the call saw
CallPath(mime) == GenerateExpectedFilePath(prefixes_to_locations, d_call.hash, mime)

\* C25: DeleteNeighbourDupes( hash, true_mime ) never deletes the file at the
\* expected path of true_mime; without that file it deletes nothing; with
\* it, a call that returns leaves no file of the hash at any other expected
\* path; and it touches nothing but the expected file paths of the hash.
C25_NeighbourDupesDeletedOnly ==
    LastCall("DeleteNeighbourDupes") =>
        LET correct_path == CallPath(d_call.mime)
            neighbours == {CallPath(mime) : mime \in Range(ALLOWED_MIMES)} \ {correct_path}
        IN /\ correct_path \in d_call.files => correct_path \in d_files
           /\ ~PathExists(d_call.files, d_call.dirs, correct_path) => d_files = d_call.files
           /\ (PathExists(d_call.files, d_call.dirs, correct_path) /\ d_call.raised = None)
                 => d_files \cap neighbours = {}
           /\ d_files \subseteq d_call.files
           /\ d_call.files \ d_files \subseteq neighbours

\* a call for the second mime has deleted the file under the first and has
\* kept the file at the path the second and the third mime share, next to a
\* file of another hash
C25_Witness ==
    /\ LastCall("DeleteNeighbourDupes")
    /\ d_call.mime = "png"
    /\ d_call.raised = None
    /\ CallPath("jpg") \in d_call.files \ d_files
    /\ CallPath("png") \in d_files
    /\ \E p \in d_files : p[3][1] # HexEncoded(d_call.hash)

\* the file of the last call existed under some allowed mime when it was made
CallFileExisted ==
    FoundMimes(d_call.files, d_call.dirs, prefixes_to_locations, d_call.hash) # {}

\* C26: GetFilePath( hash, mime, check_file_exists = True ) raises
\* FileMissingException only if the file exists under no allowed extension;
\* if it exists, but not at the expected path of mime, the call returns that
\* expected path and a file exists there when it returns.
C26_GetFilePathRepairsExtension ==
    (LastCall("GetFilePath") /\ d_call.mime # None /\ d_call.check_file_exists) =>
        /\ d_call.raised = "FileMissingException" => ~CallFileExisted
        /\ (CallFileExisted /\ ~PathExists(d_call.files, d_call.dirs, CallPath(d_call.mime)))
              => /\ d_call.raised = None
                 /\ d_call.path = CallPath(d_call.mime)
                 /\ PathExists(d_files, d_call.dirs, d_call.path)

\* C27: a file lookup that fails raises DirectoryMissingException exactly
\* when the prefix directory of the hash is absent and FileMissingException
\* exactly when the directory is there and the file is under no allowed
\* extension, also when the lookup is made by GetFilePath for a given mime; a
\* thumbnail write that fails raises DirectoryMissingException exactly when
\* the thumbnail directory is absent and FileMissingException when it is there.
C27_MissingKindsNotConflated ==
    /\ (LastCall("GetFilePath") \/ LastCall("_RegenFileMetadata")) =>
          /\ d_call.raised \in {None, "DirectoryMissingException", "FileMissingException"}
          /\ d_call.raised = "DirectoryMissingException" =>
                ~FileSubdirExists(d_call.dirs, prefixes_to_locations, d_call.hash)
          /\ d_call.raised = "FileMissingException" =>
                /\ FileSubdirExists(d_call.dirs, prefixes_to_locations, d_call.hash)
                /\ ~CallFileExisted
    /\ LastCall("AddThumbnailFromBytes") =>
          /\ d_call.raised \in {None, "DirectoryMissingException", "FileMissingException"}
          /\ d_call.raised = "DirectoryMissingException" =>
                ~ThumbDirExists(d_call.dirs, prefixes_to_locations, d_call.hash)
          /\ d_call.raised = "FileMissingException" =>
                ThumbDirExists(d_call.dirs, prefixes_to_locations, d_call.hash)
          /\ ~ThumbDirExists(d_call.dirs, prefixes_to_locations, d_call.hash) =>
                d_call.raised = "DirectoryMissingException"

\* C27 as stated: moreover FileMissingException from a thumbnail write means
\* that no thumbnail file is at the path
C27_FileMissingMeansFileAbsent ==
    /\ C27_MissingKindsNotConflated
    /\ (LastCall("AddThumbnailFromBytes") /\ d_call.raised = "FileMissingException") =>
          GenerateExpectedThumbnailPath(prefixes_to_locations, d_call.hash) \notin d_call.files

\* GetFilePath for a given mime has raised DirectoryMissingException: the
\* prefix directory of the hash was gone
C27_Witness ==
    /\ LastCall("GetFilePath")
    /\ d_call.mime # None
    /\ d_call.check_file_exists
    /\ d_call.raised = "DirectoryMissingException"
    /\ \E p \in d_call.files : p[3][1] = HexEncoded(d_call.hash)

AckCount(pair) == Cardinality({i \in DOMAIN d_acks : d_acks[i] = pair})

\* the turn acknowledges a pair
Acknowledges(pair) == d_acks' = Append(d_acks, pair)

\* the deletion of the pair was attempted in the step: its thumbnail is not on
\* disk, and its file was deleted or was under no allowed extension
DeletionAttempted(pair) ==
    /\ \A h \in pair[2] :
          GenerateExpectedThumbnailPath(prefixes_to_locations, h) \notin d_files'
    /\ \A h \in pair[1] :
          \/ d_files' # d_files
          \/ FoundMimes(d_files, dirs, prefixes_to_locations, h) = {}

\* C28: a call of DoDeferredPhysicalDeletes that is over while no shutdown was
\* signalled leaves no pair pending, every pair has been acknowledged exactly
\* once, and a pair is acknowledged only in a turn that attempted its
\* deletion, whichever of its two hashes are set and whatever is on disk.
C28_DeferredDeletesDrain ==
    /\ [](LastCall("DoDeferredPhysicalDeletes") /\ ~d_loop /\ ~started_shutdown =>
             /\ d_pending = {}
             /\ \A pair \in Range(d_acks) : AckCount(pair) = 1)
    /\ [][\A pair \in DeferredPairs : Acknowledges(pair) => DeletionAttempted(pair)]_vars

\* C29: whatever ClearOrphans has moved or deleted so far, on every path and
\* after a cancellation, is a file or thumbnail for which the store answered
\* that the hash of its filename is an orphan.
C29_OnlyOrphansCleared ==
    LastCall("ClearOrphans") =>
        \A path \in d_call.files \ d_files : <<path, "True">> \in d_call.answers

\* the last call changed the extension from one mime to another by a copy, and
\* the file is now on disk under both
StaleDuplicateLeft(needed_to_copy_file, old_mime, mime) ==
    /\ needed_to_copy_file = "True"
    /\ CallPath(old_mime) \in d_files
    /\ CallPath(mime) \in d_files

DeleteNeighbourDupesScheduled == <<d_call.hash, "DELETE_NEIGHBOUR_DUPES">> \in job_queue

\* C30: when an extension change had to copy and left the file under the old
\* extension too, a DELETE_NEIGHBOUR_DUPES job of the hash is pending, whether
\* the change was made by _RegenFileMetadata's ChangeFileExt or by the lookup
\* in GetFilePath (called directly or by _RegenFileMetadata).
C30_StaleDuplicateIsScheduled ==
    /\ (/\ LastCall("GetFilePath")
        /\ StaleDuplicateLeft(d_call.needed_to_copy_file, d_call.old_mime, d_call.mime))
          => DeleteNeighbourDupesScheduled
    /\ (/\ LastCall("_RegenFileMetadata")
        /\ \/ StaleDuplicateLeft(d_call.needed_to_copy_file, d_call.old_mime, d_call.original_mime)
           \/ StaleDuplicateLeft(d_call.needed_to_dupe_the_file, d_call.original_mime, d_call.mime))
          => DeleteNeighbourDupesScheduled

\* the prefix directories that lie in one of the locations but not in the
\* location their prefix is mapped to
StraysIn(locations) ==
    {x \in dirs : x[1] \in locations /\ x[1] # prefixes_to_locations[x[2]]}

\* C31: when a Rebalance pass that was not cancelled is over, no prefix
\* directory lies in a known location (a value of the map, a location of the
\* ideal configuration, the thumbnail override) other than the location its
\* prefix is mapped to.
C31_NoStrayAfterPass ==
    (reb_pc = "done" /\ ~reb_cancelled) =>
        StraysIn(KnownLocations(prefixes_to_locations, ideal_locations, thumbnail_override)) = {}

\* a location is overweight by the claim's words: current >= ideal + 1/256
OverweightByWeights(l) ==
    CurrentCount(prefixes_to_locations, l) * SumWeights(ideal_locations)
        >= IdealWeightOf(ideal_locations, l) * NumHex + SumWeights(ideal_locations)

\* a location is underweight by the claim's words: current < ideal
UnderweightByWeights(l) ==
    CurrentCount(prefixes_to_locations, l) * SumWeights(ideal_locations)
        < IdealWeightOf(ideal_locations, l) * NumHex

WeightPairExists ==
    \E o \in Locations : \E u \in Locations \ {o} :
        OverweightByWeights(o) /\ UnderweightByWeights(u)

ThumbnailsInPlace ==
    \A i \in HexPrefixes :
        prefixes_to_locations[ThumbnailPrefix(i)] =
            IF thumbnail_override # None
            THEN thumbnail_override
            ELSE prefixes_to_locations[FilePrefix(i)]

\* C32: the tuple _GetRebalanceTuple has just returned is a thumbnail move
\* only when no pair of an overweight and an underweight location exists,
\* and when it is None no such pair exists and every thumbnail prefix is
\* mapped to the override, or without one to the location of its file prefix.
C32_NoneMeansConverged ==
    reb_pc = "rebalancing" =>
        /\ (rebalance_tuple # NoTuple /\ rebalance_tuple[1][1] = "t") => ~WeightPairExists
        /\ rebalance_tuple = NoTuple => (~WeightPairExists /\ ThumbnailsInPlace)

\* None is returned after a thumbnail prefix was moved to the override
C32_Witness ==
    /\ reb_pc = "rebalancing"
    /\ rebalance_tuple = NoTuple
    /\ thumbnail_override # None
    /\ num_thumb_moves > 0
    /\ num_file_moves > 0

\* a turn of one of the two loops is past its test of the job key
MoveInProgress == reb_pc \in {"moving", "merging"}

\* the step relocates a prefix or merges a stray directory
RelocatesOrMerges ==
    \/ db_client_files_locations' # db_client_files_locations
    \/ dirs' # dirs

C8_BatchesDoNotInterleave ==
    [][\A th \in MThreads : BodyRuns(th) => ~m_intruded[th]]_vars

====
